---- MODULE Spec2Model ----
(***************************************************************************)
(* A model of the rigid-body tree of                                       *)
(* MultibodyComputation/IVMRigidBodies/RigidBodyNode.cpp: the node factory *)
(* and its shared state-offset counter, the transfer of generalized        *)
(* coordinates between the tree-wide vectors and the nodes, the quaternion *)
(* constraint projection, and the recursive passes of the articulated-body *)
(* algorithm.                                                              *)
(*                                                                         *)
(* Reals.  The program computes in double; the model computes exactly.  A  *)
(* real is a polynomial in pi with rational coefficients over a common     *)
(* denominator, the tuple <<d, c0, c1, ...>> standing for                  *)
(* (c0 + c1*pi + c2*pi^2 + ...) / d, kept canonical: d > 0, the gcd of d   *)
(* and the c's is 1, no trailing zero coefficient past c0.  pi is needed   *)
(* because the torsion, U-joint and diatom angles are in radians while the *)
(* ball joint's Euler angles are multiplied by DEG2RAD = pi/180.  sin and  *)
(* cos are exact on the multiples of pi/2 and cut off after the leading     *)
(* terms elsewhere, sqrt is exact on the rational squares, on which the     *)
(* inputs keep it.                                                          *)
(***************************************************************************)
EXTENDS Integers, Sequences, FiniteSets, TLC

----------------------------------------------------------------------------
(* Exact reals *)

Abs(i) == IF i < 0 THEN -i ELSE i

RECURSIVE Gcd(_, _)
Gcd(a, b) == IF b = 0 THEN a ELSE Gcd(b, a % b)

RECURSIVE GcdSeq(_, _, _)
GcdSeq(s, k, g) ==
  IF k > Len(s) \/ g = 1 THEN g ELSE GcdSeq(s, k + 1, Gcd(Abs(s[k]), g))

RECURSIVE Trim(_)
Trim(s) == IF Len(s) > 2 /\ s[Len(s)] = 0 THEN Trim(SubSeq(s, 1, Len(s) - 1)) ELSE s

\* Tuple makes a tuple, every element computed, of a function on 1..n.
Tuple(f) == f \o <<>>

Scaled(t, sg) == IF sg = 1 THEN t ELSE Tuple([k \in 1..Len(t) |-> t[k] \div sg])
Reduced(t, g) == Scaled(t, IF t[1] < 0 THEN -g ELSE g)
Trimmed(t) == Reduced(t, GcdSeq(t, 1, 0))
\* <<d, c0, ...>> with d # 0, made canonical.
Canon(s) == Trimmed(Trim(Tuple(s)))

Rat(n, d) ==
  IF d = 1 THEN <<1, n>>
  ELSE LET g == Gcd(Abs(n), Abs(d))
           sg == IF d < 0 THEN -g ELSE g
       IN  <<d \div sg, n \div sg>>

Num(n) == <<1, n>>
Zero == <<1, 0>>
One == <<1, 1>>
IsRat(x) == Len(x) = 2

Coef(x, k) == IF k + 2 <= Len(x) THEN x[k + 2] ELSE 0
MaxI(a, b) == IF a >= b THEN a ELSE b

Add(x, y) ==
  IF Len(x) = 2 /\ Len(y) = 2
  THEN IF x[1] = 1 /\ y[1] = 1 THEN <<1, x[2] + y[2]>>
       ELSE IF x[1] = y[1] THEN Rat(x[2] + y[2], x[1])
       ELSE Rat(x[2] * y[1] + y[2] * x[1], x[1] * y[1])
  ELSE Canon([k \in 1..MaxI(Len(x), Len(y)) |->
               IF k = 1 THEN x[1] * y[1]
               ELSE Coef(x, k - 2) * y[1] + Coef(y, k - 2) * x[1]])

Neg(x) == IF Len(x) = 2 THEN <<x[1], -x[2]>>
          ELSE Tuple([k \in 1..Len(x) |-> IF k = 1 THEN x[1] ELSE -x[k]])

Sub(x, y) == Add(x, Neg(y))

RECURSIVE Conv(_, _, _, _)
\* The coefficient of pi^k in the product of the numerators: the sum over i <= k.
Conv(x, y, k, i) ==
  IF i < 0 THEN 0 ELSE Coef(x, i) * Coef(y, k - i) + Conv(x, y, k, i - 1)

Mul(x, y) ==
  IF Len(x) = 2 /\ Len(y) = 2
  THEN IF x[2] = 0 \/ y[2] = 0 THEN <<1, 0>>
       ELSE IF x[1] = 1 /\ y[1] = 1 THEN <<1, x[2] * y[2]>>
       ELSE Rat(x[2] * y[2], x[1] * y[1])
  ELSE Canon([k \in 1..(Len(x) + Len(y) - 2) |->
               IF k = 1 THEN x[1] * y[1] ELSE Conv(x, y, k - 2, k - 2)])

\* x / y for a rational y # 0 (the program divides by a norm and by pivots only).
Div(x, y) == Mul(x, Rat(y[1], y[2]))

ISqrt(n) == CHOOSE r \in 0..n : r * r = n
\* sqrt of a rational square.
Sqrt(x) == Rat(ISqrt(x[2]), ISqrt(x[1]))

Pi == <<1, 0, 1>>
\* The number of quarter turns of an angle that is a multiple of pi/2.
Quarters(x) == IF Len(x) = 2 /\ x[2] = 0 THEN 0
               ELSE IF Len(x) = 3 /\ x[2] = 0 /\ x[1] = 1 THEN 2 * x[3]
               ELSE IF Len(x) = 3 /\ x[2] = 0 /\ x[1] = 2 THEN x[3]
               ELSE CHOOSE k \in {} : TRUE
IsQuarters(x) ==
  \/ Len(x) = 2 /\ x[2] = 0
  \/ Len(x) = 3 /\ x[2] = 0 /\ x[1] \in {1, 2}
\* Off the multiples of pi/2 the model keeps the leading terms of the series,
\* x and 1 - x^2/2: for the small angles of the inputs that tells the value
\* from 0, 1 and -1, which is all the properties ask of it.
Sin(x) == IF ~IsQuarters(x) THEN x
          ELSE LET k == Quarters(x) % 4
               IN  IF k = 1 THEN Num(1) ELSE IF k = 3 THEN Num(-1) ELSE Zero
Cos(x) == IF ~IsQuarters(x) THEN Sub(One, Div(Mul(x, x), Num(2)))
          ELSE LET k == Quarters(x) % 4
               IN  IF k = 0 THEN Num(1) ELSE IF k = 2 THEN Num(-1) ELSE Zero

----------------------------------------------------------------------------
(* Vectors and matrices: tuples of reals and tuples of rows. *)

VecOf(n, x) == Tuple([i \in 1..n |-> x])
MatOf(r, c, x) == Tuple([i \in 1..r |-> VecOf(c, x)])
IVec(s) == Tuple([i \in 1..Len(s) |-> Num(s[i])])
Zero3 == VecOf(3, Zero)
Zero6 == VecOf(6, Zero)

VAdd(u, v) == Tuple([i \in 1..Len(u) |-> Add(u[i], v[i])])
VSub(u, v) == Tuple([i \in 1..Len(u) |-> Sub(u[i], v[i])])
VNeg(u) == Tuple([i \in 1..Len(u) |-> Neg(u[i])])
VScale(x, u) == Tuple([i \in 1..Len(u) |-> Mul(x, u[i])])
VDivS(u, x) == Tuple([i \in 1..Len(u) |-> Div(u[i], x)])

RECURSIVE DotK(_, _, _)
DotK(u, v, k) == IF k = 0 THEN Zero ELSE Add(DotK(u, v, k - 1), Mul(u[k], v[k]))
Dot(u, v) == DotK(u, v, Len(u))
Norm(u) == Sqrt(Dot(u, u))

Cross(u, v) ==
  << Sub(Mul(u[2], v[3]), Mul(u[3], v[2])),
     Sub(Mul(u[3], v[1]), Mul(u[1], v[3])),
     Sub(Mul(u[1], v[2]), Mul(u[2], v[1])) >>

NRows(A) == Len(A)
NCols(A) == Len(A[1])
Col(A, j) == Tuple([i \in 1..Len(A) |-> A[i][j]])
Transpose(A) == Tuple([j \in 1..NCols(A) |-> Col(A, j)])
MatVec(A, v) == Tuple([i \in 1..Len(A) |-> Dot(A[i], v)])
MatMul(A, B) ==
  LET Bt == Transpose(B)
  IN  Tuple([i \in 1..Len(A) |-> Tuple([j \in 1..Len(Bt) |-> Dot(A[i], Bt[j])])])
MatAdd(A, B) == Tuple([i \in 1..Len(A) |-> VAdd(A[i], B[i])])
MatSub(A, B) == Tuple([i \in 1..Len(A) |-> VSub(A[i], B[i])])
MatNeg(A) == Tuple([i \in 1..Len(A) |-> VNeg(A[i])])
MatScale(x, A) == Tuple([i \in 1..Len(A) |-> VScale(x, A[i])])
Ident(n) == Tuple([i \in 1..n |-> Tuple([j \in 1..n |-> IF i = j THEN One ELSE Zero])])

\* The 3-vector made of entries k+1..k+3 of v (SubVector(v, k, 3)).
Sub3(v, k) == << v[k + 1], v[k + 2], v[k + 3] >>
SubV(v, k, n) == Tuple([i \in 1..n |-> v[k + i]])
\* v with entries k+1..k+Len(w) replaced by w (an assignment through a SubVector).
SetSub(v, k, w) ==
  Tuple([i \in 1..Len(v) |-> IF k < i /\ i <= k + Len(w) THEN w[i - k] ELSE v[i]])

\* crossMat(v): the matrix of u |-> v x u.
crossMat(v) ==
  << << Zero, Neg(v[3]), v[2] >>,
     << v[3], Zero, Neg(v[1]) >>,
     << Neg(v[2]), v[1], Zero >> >>

\* orthoTransform(M, R) = R * M * R^T.
orthoTransform(M, R) == MatMul(MatMul(R, M), Transpose(R))

blockVec(u, v) == u \o v
blockMat12(A, B) == Tuple([i \in 1..Len(A) |-> A[i] \o B[i]])
blockMat21(A, B) == A \o B
blockMat22(A, B, C, D) == blockMat12(A, B) \o blockMat12(C, D)
Block(M, r, c, nr, nc) == Tuple([i \in 1..nr |-> SubV(M[r + i], c, nc)])

ident33 == Ident(3)
zero33 == MatOf(3, 3, Zero)

\* PhiMatrix(r), kept as its offset r.  phi * F shifts a spatial force from the
\* child to the parent; transpose(phi) * V shifts a spatial velocity or
\* acceleration from the parent to the child.
PhiMul(r, f) == blockVec(VAdd(Sub3(f, 0), Cross(r, Sub3(f, 3))), Sub3(f, 3))
PhiTMul(r, v) == blockVec(Sub3(v, 0), VAdd(Sub3(v, 3), Cross(Sub3(v, 0), r)))
PhiMat(r) == blockMat22(ident33, crossMat(r), zero33, ident33)

----------------------------------------------------------------------------
(* Nodes.  A node is a record holding the fields of RigidBodyNode, of       *)
(* RigidBodyNodeSpec<dof> and, for the rotate3 and full joints, of the      *)
(* ContainedBallJoint; nodes are named by their index in creation order and *)
(* parent is 0 for a node without parent.                                   *)

\* A value the constructors leave uninitialised.
Indet == <<0, 0>>

\* Mass properties {mass, centre of mass, inertia about the body origin}.
MassProps(m, com, inertia) == [mass |-> m, COM_B |-> com, inertia_OB_B |-> inertia]
\* RBMassProperties(): no mass.
NoMass == MassProps(Zero, Zero3, zero33)
\* RBFrame: a rotation and an origin; RBFrame() is the identity frame.
Frame(R, loc) == [Rot_RF |-> R, Loc_RF |-> loc]
IdFrame == Frame(ident33, Zero3)

JointTypes ==
  { "ThisIsGround", "TorsionJoint", "UJoint", "OrientationJoint", "CartesianJoint",
    "FreeLineJoint", "FreeJoint", "SlidingJoint", "CylinderJoint", "PlanarJoint",
    "GimbalJoint", "WeldJoint", "UnknownJoint" }

\* The state offset the base class gives a node that takes none from the
\* counter (RBGroundBody passes no counter on).
BaseStateOffset == 0

\* RigidBodyNode(mProps_B, originOfB_P, rot_BJ, originOfJ_B)
RigidBodyNodeBase(cls, mProps_B, originOfB_P, rot_BJ, originOfJ_B) ==
  [ class |-> cls, dof |-> 0, useEuler |-> TRUE,
    stateOffset |-> BaseStateOffset, parent |-> 0, children |-> <<>>, level |-> 0,
    mass |-> mProps_B.mass, COM_B |-> mProps_B.COM_B,
    inertia_OB_B |-> mProps_B.inertia_OB_B,
    R_BJ |-> rot_BJ, OJ_B |-> originOfJ_B, refOrigin_P |-> originOfB_P,
    OB_P |-> originOfB_P, R_PB |-> ident33, R_GB |-> ident33, OB_G |-> Zero3,
    COM_G |-> Zero3, COMstation_G |-> Zero3, inertia_OB_G |-> zero33,
    Mk |-> MatOf(6, 6, Zero), phi |-> Zero3,
    V_PB_G |-> Zero6, sVel |-> Zero6, sAcc |-> Zero6, a |-> Zero6, b |-> Zero6,
    P |-> MatOf(6, 6, Zero), z |-> Zero6, tau |-> MatOf(6, 6, Zero),
    psiT |-> MatOf(6, 6, Zero), Gepsilon |-> Zero6, Y |-> MatOf(6, 6, Zero),
    theta |-> <<>>, dTheta |-> <<>>, ddTheta |-> <<>>, forceInternal |-> <<>>,
    H |-> <<>>, DI |-> <<>>, G |-> MatOf(6, 0, Zero), nu |-> <<>>, epsilon |-> <<>>,
    q |-> <<>>, dq |-> <<>>, ddq |-> <<>>, trig |-> <<>> ]

\* RBGroundBody()
RBGroundBody == RigidBodyNodeBase("RBGroundBody", NoMass, Zero3, ident33, Zero3)

\* RigidBodyNodeSpec<dof>(mProps_B, jointFrame, cnt): the node and the counter after.
RigidBodyNodeSpec(cls, dof, mProps_B, jointFrame, cnt) ==
  [ node |->
      [ RigidBodyNodeBase(cls, mProps_B, Zero3, jointFrame.Rot_RF, jointFrame.Loc_RF)
          EXCEPT !.dof = dof, !.stateOffset = cnt,
                 !.theta = VecOf(dof, Zero), !.dTheta = VecOf(dof, Zero),
                 !.ddTheta = VecOf(dof, Zero), !.forceInternal = VecOf(dof, Zero),
                 !.H = MatOf(dof, 6, Indet), !.DI = MatOf(dof, dof, Indet),
                 !.G = MatOf(6, dof, Indet), !.nu = VecOf(dof, Indet),
                 !.epsilon = VecOf(dof, Indet) ],
    cnt |-> cnt + dof ]

BallCntNoQuaternionSlot(cnt, shouldUseEuler) == cnt
\* ContainedBallJoint(cnt, shouldUseEuler): the counter after.
BallCnt(cnt, shouldUseEuler) == IF ~shouldUseEuler THEN cnt + 1 ELSE cnt

\* The node with its ContainedBallJoint member constructed.
WithBall(r, shouldUseEuler) ==
  [ node |-> [ r.node EXCEPT !.useEuler = shouldUseEuler,
                             !.q = IVec(<<1, 0, 0, 0>>), !.dq = VecOf(4, Zero),
                             !.ddq = VecOf(4, Zero), !.trig = VecOf(6, Indet) ],
    cnt |-> BallCnt(r.cnt, shouldUseEuler) ]

SupportedTypes ==
  { "ThisIsGround", "TorsionJoint", "UJoint", "OrientationJoint", "CartesianJoint",
    "FreeLineJoint", "FreeJoint" }

NoNode == [class |-> "null"]

\* The switch of RigidBodyNode::create over the supported joint types.
NewNode(m, jointFrame, type, useEuler, nxtStateOffset) ==
  CASE type = "ThisIsGround" -> [node |-> RBGroundBody, cnt |-> nxtStateOffset]
    [] type = "TorsionJoint" ->
         RigidBodyNodeSpec("RBNodeTorsion", 1, m, jointFrame, nxtStateOffset)
    [] type = "UJoint" ->
         RigidBodyNodeSpec("RBNodeRotate2", 2, m, jointFrame, nxtStateOffset)
    [] type = "OrientationJoint" ->
         WithBall(RigidBodyNodeSpec("RBNodeRotate3", 3, m, IdFrame, nxtStateOffset),
                  useEuler)
    [] type = "CartesianJoint" ->
         RigidBodyNodeSpec("RBNodeTranslate", 3, m, IdFrame, nxtStateOffset)
    [] type = "FreeLineJoint" ->
         RigidBodyNodeSpec("RBNodeTranslateRotate2", 5, m, jointFrame, nxtStateOffset)
    [] type = "FreeJoint" ->
         WithBall(RigidBodyNodeSpec("RBNodeTranslateRotate3", 6, m, IdFrame,
                                    nxtStateOffset), useEuler)

createIgnoringReversed(m, jointFrame, type, isReversed, useEuler, nxtStateOffset) ==
  IF type \in SupportedTypes
  THEN [fail |-> "none"] @@ NewNode(m, jointFrame, type, useEuler, nxtStateOffset)
  ELSE [fail |-> "assert(false)", node |-> NoNode, cnt |-> nxtStateOffset]

createReturningNull(m, jointFrame, type, isReversed, useEuler, nxtStateOffset) ==
  IF isReversed
  THEN [fail |-> "assert(!isReversed)", node |-> NoNode, cnt |-> nxtStateOffset]
  ELSE IF type \in SupportedTypes
  THEN [fail |-> "none"] @@ NewNode(m, jointFrame, type, useEuler, nxtStateOffset)
  ELSE [fail |-> "none", node |-> NoNode, cnt |-> nxtStateOffset]

\* RigidBodyNode::create: the failed assertion if any, the node returned and the
\* counter after the call.
create(m, jointFrame, type, isReversed, useEuler, nxtStateOffset) ==
  IF isReversed
  THEN [fail |-> "assert(!isReversed)", node |-> NoNode, cnt |-> nxtStateOffset]
  ELSE IF type \in SupportedTypes
  THEN [fail |-> "none"] @@ NewNode(m, jointFrame, type, useEuler, nxtStateOffset)
  ELSE [fail |-> "assert(false)", node |-> NoNode, cnt |-> nxtStateOffset]

getDOF(n) == n.dof
getBallDim(n) == IF n.useEuler THEN 3 ELSE 4
getDim(n) ==
  CASE n.class = "RBNodeRotate3" -> getBallDim(n)
    [] n.class = "RBNodeTranslateRotate3" -> getBallDim(n) + 3
    [] OTHER -> n.dof

----------------------------------------------------------------------------
(* State *)

VARIABLES
  nodes,    \* the nodes created so far, in creation order
  cnt,      \* the state-offset counter every create call shares
  call,     \* the last operation called, its arguments and what it returned
  failure,  \* "none", or the assertion or exception that ended the run
  cerr,     \* what the failing operation wrote to cerr, or <<>>
  pos,      \* the caller's coordinate vector
  vel,      \* the caller's velocity vector
  pos0,     \* pos as the caller first filled it
  vel0,     \* vel as the caller first filled it
  force,    \* the spatial force applied to each body
  out,      \* the vectors the get operations write into
  pass,     \* the pass under way over the tree, or "idle"
  cursor,   \* the node the pass visits next
  cur,      \* the passes whose results are current
  enforced  \* the nodes enforceConstraints has been called on

vars == << nodes, cnt, call, failure, cerr, pos, vel, pos0, vel0, force, out, pass, cursor,
           cur, enforced >>
driver == << cerr, pos, vel, pos0, vel0, force, out, pass, cursor, cur, enforced >>

Call(op, type, isReversed, useEuler, node, ret) ==
  [op |-> op, type |-> type, isReversed |-> isReversed, useEuler |-> useEuler,
   node |-> node, ret |-> ret]
NoCall == Call("none", "none", FALSE, FALSE, 0, 0)

\* The slots of the tree-wide vectors a node reads and writes.
Slice(n) == { k \in Nat : n.stateOffset <= k /\ k < n.stateOffset + getDim(n) }
SliceOf(n) == n.stateOffset .. (n.stateOffset + getDim(n) - 1)

----------------------------------------------------------------------------
(* Assembly: calls of RigidBodyNode::create on one shared counter *)

MaxNodes == 3

UnitMass == MassProps(One, Zero3, ident33)
\* A frame whose z axis is the body's x axis.
TurnedFrame ==
  Frame(<< <<Zero, Zero, One>>, <<One, Zero, Zero>>, <<Zero, One, Zero>> >>, Zero3)
CreateFrames == {IdFrame, TurnedFrame}

InitCreate ==
  /\ nodes = <<>>
  /\ cnt = 0
  /\ call = NoCall
  /\ failure = "none"
  /\ cerr = <<>>
  /\ pos = <<>> /\ vel = <<>> /\ pos0 = <<>> /\ vel0 = <<>>
  /\ force = <<>> /\ out = <<>>
  /\ pass = "assembly" /\ cursor = 0 /\ cur = {} /\ enforced = {}

Create(m, jointFrame, type, isReversed, useEuler) ==
  /\ pass = "assembly"
  /\ failure = "none"
  /\ Len(nodes) < MaxNodes
  /\ LET r == create(m, jointFrame, type, isReversed, useEuler, cnt)
     IN  /\ failure' = r.fail
         /\ cnt' = r.cnt
         /\ nodes' = IF r.node = NoNode THEN nodes ELSE Append(nodes, r.node)
         /\ call' = Call("create", type, isReversed, useEuler, 0,
                         IF r.node = NoNode THEN 0 ELSE Len(nodes) + 1)
  /\ UNCHANGED driver

NextCreate ==
  \E jointFrame \in CreateFrames, type \in JointTypes, isReversed \in BOOLEAN,
     useEuler \in BOOLEAN :
    Create(UnitMass, jointFrame, type, isReversed, useEuler)

SpecCreate == InitCreate /\ [][NextCreate]_vars

RECURSIVE DimsBefore(_, _)
\* The sum of getDim() of the nodes created before node i.
DimsBefore(ns, i) == IF i <= 1 THEN 0 ELSE DimsBefore(ns, i - 1) + getDim(ns[i - 1])

IsGround(n) == n.class = "RBGroundBody"
IsQuat(n) == n.class \in {"RBNodeRotate3", "RBNodeTranslateRotate3"} /\ ~n.useEuler

DimTable(n) ==
  CASE n.class = "RBGroundBody" -> getDim(n) = 0
    [] n.class = "RBNodeTorsion" -> getDim(n) = 1
    [] n.class = "RBNodeRotate2" -> getDim(n) = 2
    [] n.class = "RBNodeTranslate" -> getDim(n) = 3
    [] n.class = "RBNodeTranslateRotate2" -> getDim(n) = 5
    [] n.class = "RBNodeRotate3" ->
         getDim(n) = (IF n.useEuler THEN 3 ELSE 4) /\ getDOF(n) = 3
    [] n.class = "RBNodeTranslateRotate3" ->
         getDim(n) = (IF n.useEuler THEN 6 ELSE 7) /\ getDOF(n) = 6

SlicesTile ==
  /\ \A i, j \in 1..Len(nodes) : i # j => SliceOf(nodes[i]) \cap SliceOf(nodes[j]) = {}
  /\ UNION { SliceOf(nodes[i]) : i \in 1..Len(nodes) } = 0..(cnt - 1)

\* C1 as stated: every node's stateOffset, the ground's included, is the sum of
\* getDim() of the nodes created before it; the slices are disjoint and contiguous;
\* getDim() and getDOF() are those of the joint table.
C1_Original ==
  /\ \A i \in 1..Len(nodes) : nodes[i].stateOffset = DimsBefore(nodes, i)
  /\ SlicesTile
  /\ \A i \in 1..Len(nodes) : DimTable(nodes[i])

\* C1 as amended: every node that is not a ground body has as stateOffset the sum
\* of getDim() of the nodes created before it; the slices of distinct nodes are
\* pairwise disjoint and cover 0..cnt-1 without a gap; getDim() is 0, 1, 2, 3, 5
\* for ground, torsion, U-joint, Cartesian and diatom, 3 or 4 for a ball and 6 or 7
\* for a free joint (Euler or quaternion), with getDOF() 3 and 6 in both modes.
C1_StateOffsets ==
  /\ \A i \in 1..Len(nodes) :
       ~IsGround(nodes[i]) => nodes[i].stateOffset = DimsBefore(nodes, i)
  /\ SlicesTile
  /\ \A i \in 1..Len(nodes) : DimTable(nodes[i])

C1_Witness ==
  /\ Len(nodes) = 3
  /\ IsQuat(nodes[1]) /\ nodes[1].class = "RBNodeRotate3"
  /\ IsQuat(nodes[2]) /\ nodes[2].class = "RBNodeTranslateRotate3"
  /\ nodes[3].class = "RBNodeTorsion" /\ nodes[3].stateOffset = 11
  /\ cnt = 12

\* C3: a create call with the reversed-joint flag set fails an assertion, returns
\* no node and leaves the nodes and the counter as they were, whatever the type.
C3_ReversedFails ==
  [][ (call'.op = "create" /\ call'.isReversed)
        => /\ failure' = "assert(!isReversed)"
           /\ call'.ret = 0
           /\ nodes' = nodes
           /\ cnt' = cnt ]_vars

C3_Witness ==
  /\ failure = "assert(!isReversed)"
  /\ call.op = "create" /\ call.isReversed /\ call.type = "FreeJoint"
  /\ Len(nodes) = 2 /\ cnt > 0

\* C4: a create call with a joint type outside the seven supported ones fails an
\* assertion, creates no node and does not advance the counter.
C4_UnsupportedTypeFails ==
  [][ (call'.op = "create" /\ call'.type \notin SupportedTypes)
        => /\ failure' # "none"
           /\ call'.ret = 0
           /\ nodes' = nodes
           /\ cnt' = cnt ]_vars

C4_Witness ==
  /\ failure = "assert(false)"
  /\ call.op = "create" /\ ~call.isReversed /\ call.type = "GimbalJoint"
  /\ Len(nodes) = 2 /\ cnt > 0

----------------------------------------------------------------------------
(* Position kinematics.  Each operator takes the nodes ns and a node n whose *)
(* parent has had its own position kinematics done, and gives n updated.     *)

DEG2RAD == Div(Pi, Num(180))

getR_GP(ns, n) == ns[n.parent].R_GB
getOP_G(ns, n) == ns[n.parent].OB_G

catRow23(v1, v2) == blockMat21(<<v1>>, <<v2>>)
zMat23 == MatOf(2, 3, Zero)
ex == IVec(<<1, 0, 0>>)
ey == IVec(<<0, 1, 0>>)
ez == IVec(<<0, 0, 1>>)

\* RBNodeTranslate::calcJointKinematicsPos
TranslateKinematicsPos(ns, n) ==
  [ n EXCEPT !.OB_P = VAdd(n.refOrigin_P, n.theta),
             !.R_PB = ident33,
             !.H = blockMat12(zero33, Transpose(getR_GP(ns, n))) ]

\* RBNodeTorsion::calcJointKinematicsPos with calcR_PB and calcH
TorsionKinematicsPos(ns, n) ==
  LET scale == One
      sinTau == Sin(Mul(scale, n.theta[1]))
      cosTau == Cos(Mul(scale, n.theta[1]))
      R_JiJ == << << cosTau, Neg(sinTau), Zero >>,
                  << sinTau, cosTau, Zero >>,
                  << Zero, Zero, One >> >>
      z == MatVec(getR_GP(ns, n), MatVec(n.R_BJ, ez))
  IN  [ n EXCEPT !.OB_P = n.refOrigin_P,
                 !.R_PB = orthoTransform(R_JiJ, n.R_BJ),
                 !.H = blockMat12(<<z>>, <<Zero3>>) ]

\* ContainedBallJoint::calcR_PB: the rotation and the trig functions it caches
\* (cPhi, sPhi, cPsi, sPsi, cTheta, sTheta).
BallR_PB(n, theta) ==
  IF n.useEuler
  THEN LET cPhi == Cos(Mul(theta[1], DEG2RAD))
           sPhi == Sin(Mul(theta[1], DEG2RAD))
           cTheta == Cos(Mul(theta[2], DEG2RAD))
           sTheta == Sin(Mul(theta[2], DEG2RAD))
           cPsi == Cos(Mul(theta[3], DEG2RAD))
           sPsi == Sin(Mul(theta[3], DEG2RAD))
       IN  [ trig |-> << cPhi, sPhi, cPsi, sPsi, cTheta, sTheta >>,
             R_PB |->
               << << Mul(cPhi, cTheta),
                     Add(Neg(Mul(sPhi, cPsi)), Mul(Mul(cPhi, sTheta), sPsi)),
                     Add(Mul(sPhi, sPsi), Mul(Mul(cPhi, sTheta), cPsi)) >>,
                  << Mul(sPhi, cTheta),
                     Add(Mul(cPhi, cPsi), Mul(Mul(sPhi, sTheta), sPsi)),
                     Add(Neg(Mul(cPhi, sPsi)), Mul(Mul(sPhi, sTheta), cPsi)) >>,
                  << Neg(sTheta), Mul(cTheta, sPsi), Mul(cTheta, cPsi) >> >> ]
  ELSE LET q0 == n.q[1]
           q1 == n.q[2]
           q2 == n.q[3]
           q3 == n.q[4]
           sq(x) == Mul(x, x)
           two(x) == Mul(Num(2), x)
       IN  [ trig |-> n.trig,
             R_PB |->
               << << Sub(Sub(Add(sq(q0), sq(q1)), sq(q2)), sq(q3)),
                     two(Sub(Mul(q1, q2), Mul(q0, q3))),
                     two(Add(Mul(q1, q3), Mul(q0, q2))) >>,
                  << two(Add(Mul(q1, q2), Mul(q0, q3))),
                     Sub(Add(Sub(sq(q0), sq(q1)), sq(q2)), sq(q3)),
                     two(Sub(Mul(q2, q3), Mul(q0, q1))) >>,
                  << two(Sub(Mul(q1, q3), Mul(q0, q2))),
                     two(Add(Mul(q2, q3), Mul(q0, q1))),
                     Add(Sub(Sub(sq(q0), sq(q1)), sq(q2)), sq(q3)) >> >> ]

\* RBNodeRotate3::calcJointKinematicsPos
Rotate3KinematicsPos(ns, n) ==
  LET r == BallR_PB(n, n.theta)
  IN  [ n EXCEPT !.OB_P = n.refOrigin_P,
                 !.R_PB = r.R_PB, !.trig = r.trig,
                 !.H = blockMat12(Transpose(getR_GP(ns, n)), zero33) ]

\* RBNodeTranslateRotate3::calcJointKinematicsPos
TranslateRotate3KinematicsPos(ns, n) ==
  LET r == BallR_PB(n, Sub3(n.theta, 0))
  IN  [ n EXCEPT !.OB_P = VAdd(n.refOrigin_P, Sub3(n.theta, 3)),
                 !.R_PB = r.R_PB, !.trig = r.trig,
                 !.H = blockMat22(Transpose(getR_GP(ns, n)), zero33,
                                  zero33, Transpose(getR_GP(ns, n))) ]

\* calcR_PB of RBNodeRotate2 and of RBNodeTranslateRotate2: Ry(psi) * Rx(phi)
\* seen from the joint frame.
Rotate2R_PB(n) ==
  LET scale == One
      sinPhi == Sin(Mul(scale, n.theta[1]))
      cosPhi == Cos(Mul(scale, n.theta[1]))
      sinPsi == Sin(Mul(scale, n.theta[2]))
      cosPsi == Cos(Mul(scale, n.theta[2]))
      a == << << cosPsi, Mul(sinPsi, sinPhi), Mul(sinPsi, cosPhi) >>,
              << Zero, cosPhi, Neg(sinPhi) >>,
              << Neg(sinPsi), Mul(cosPsi, sinPhi), Mul(cosPsi, cosPhi) >> >>
  IN  orthoTransform(a, n.R_BJ)

\* The two rows x, y of calcH of RBNodeRotate2 and RBNodeTranslateRotate2.
Rotate2Axes(ns, n, R_PB) ==
  LET scale == One
      tmpR_GB == MatMul(getR_GP(ns, n), R_PB)
      x == VScale(scale, MatVec(tmpR_GB, MatVec(n.R_BJ, ex)))
      y == VScale(scale, MatVec(tmpR_GB, MatVec(n.R_BJ, ey)))
  IN  catRow23(x, y)

\* RBNodeRotate2::calcJointKinematicsPos
Rotate2KinematicsPos(ns, n) ==
  LET R == Rotate2R_PB(n)
  IN  [ n EXCEPT !.OB_P = n.refOrigin_P,
                 !.R_PB = R,
                 !.H = blockMat12(Rotate2Axes(ns, n, R), zMat23) ]

\* RBNodeTranslateRotate2::calcJointKinematicsPos
TranslateRotate2KinematicsPos(ns, n) ==
  LET R == Rotate2R_PB(n)
  IN  [ n EXCEPT !.OB_P = VAdd(n.refOrigin_P, Sub3(n.theta, 2)),
                 !.R_PB = R,
                 !.H = blockMat22(Rotate2Axes(ns, n, R), zMat23,
                                  zero33, Transpose(getR_GP(ns, n))) ]

calcJointKinematicsPos(ns, n) ==
  CASE n.class = "RBNodeTranslate" -> TranslateKinematicsPos(ns, n)
    [] n.class = "RBNodeTorsion" -> TorsionKinematicsPos(ns, n)
    [] n.class = "RBNodeRotate3" -> Rotate3KinematicsPos(ns, n)
    [] n.class = "RBNodeTranslateRotate3" -> TranslateRotate3KinematicsPos(ns, n)
    [] n.class = "RBNodeRotate2" -> Rotate2KinematicsPos(ns, n)
    [] n.class = "RBNodeTranslateRotate2" -> TranslateRotate2KinematicsPos(ns, n)

calcJointIndependentKinematicsPosWithOffDiagTwice(ns, n) ==
  LET OB_OP_G == MatVec(getR_GP(ns, n), n.OB_P)
      R_GB == MatMul(getR_GP(ns, n), n.R_PB)
      OB_G == VAdd(getOP_G(ns, n), OB_OP_G)
      inertia_OB_G == orthoTransform(n.inertia_OB_B, R_GB)
      COMstation_G == MatVec(R_GB, n.COM_B)
      offDiag == MatScale(n.mass, crossMat(COMstation_G))
  IN  [ n EXCEPT !.phi = OB_OP_G,
                 !.R_GB = R_GB,
                 !.OB_G = OB_G,
                 !.inertia_OB_G = inertia_OB_G,
                 !.COMstation_G = COMstation_G,
                 !.COM_G = VAdd(OB_G, COMstation_G),
                 !.Mk = blockMat22(inertia_OB_G, offDiag,
                                   offDiag, MatScale(n.mass, ident33)) ]
\* RigidBodyNode::calcJointIndependentKinematicsPos
calcJointIndependentKinematicsPos(ns, n) ==
  LET OB_OP_G == MatVec(getR_GP(ns, n), n.OB_P)
      R_GB == MatMul(getR_GP(ns, n), n.R_PB)
      OB_G == VAdd(getOP_G(ns, n), OB_OP_G)
      inertia_OB_G == orthoTransform(n.inertia_OB_B, R_GB)
      COMstation_G == MatVec(R_GB, n.COM_B)
      offDiag == MatScale(n.mass, crossMat(COMstation_G))
  IN  [ n EXCEPT !.phi = OB_OP_G,
                 !.R_GB = R_GB,
                 !.OB_G = OB_G,
                 !.inertia_OB_G = inertia_OB_G,
                 !.COMstation_G = COMstation_G,
                 !.COM_G = VAdd(OB_G, COMstation_G),
                 !.Mk = blockMat22(inertia_OB_G, offDiag,
                                   MatNeg(offDiag), MatScale(n.mass, ident33)) ]

setBallPosNormalizing(n, posv, theta) ==
  IF n.useEuler THEN [n EXCEPT !.theta = SetSub(n.theta, 0, Sub3(posv, n.stateOffset))]
  ELSE [n EXCEPT !.q = VDivS(SubV(posv, n.stateOffset, 4),
                             Norm(SubV(posv, n.stateOffset, 4))),
                 !.theta = SetSub(n.theta, 0, theta)]
\* ContainedBallJoint::setBallPos, for a caller whose local theta holds `theta`
\* before the call and is stored into the first three entries of the node's theta.
setBallPos(n, posv, theta) ==
  IF n.useEuler THEN [n EXCEPT !.theta = SetSub(n.theta, 0, Sub3(posv, n.stateOffset))]
  ELSE [n EXCEPT !.q = SubV(posv, n.stateOffset, 4),
                 !.theta = SetSub(n.theta, 0, theta)]

\* setJointPos of RigidBodyNodeSpec, RBNodeRotate3 and RBNodeTranslateRotate3
setJointPos(n, posv) ==
  CASE n.class = "RBNodeRotate3" -> setBallPos(n, posv, n.theta)
    [] n.class = "RBNodeTranslateRotate3" ->
         LET m == setBallPos(n, posv, VecOf(3, Indet))
         IN  [m EXCEPT !.theta =
                SetSub(m.theta, 3, Sub3(posv, n.stateOffset + getBallDim(n)))]
    [] OTHER -> [n EXCEPT !.theta = SubV(posv, n.stateOffset, n.dof)]

\* setPos: RBGroundBody's does nothing, RigidBodyNodeSpec's sets the coordinates
\* and redoes the node's position kinematics.
setPos(ns, n, posv) ==
  IF IsGround(n) THEN n
  ELSE LET n1 == [n EXCEPT !.forceInternal = VecOf(n.dof, Zero)]
           n2 == setJointPos(n1, posv)
           n3 == calcJointKinematicsPos(ns, n2)
       IN  calcJointIndependentKinematicsPos(ns, n3)

getPosOfTheta(n, p) == IF IsGround(n) THEN p ELSE SetSub(p, n.stateOffset, n.theta)
\* getPos of RBGroundBody, RigidBodyNodeSpec, RBNodeRotate3, RBNodeTranslateRotate3:
\* the caller's vector p after the call.
getPos(n, p) ==
  CASE IsGround(n) -> p
    [] n.class = "RBNodeRotate3" ->
         IF n.useEuler THEN SetSub(p, n.stateOffset, n.theta)
         ELSE SetSub(p, n.stateOffset, n.q)
    [] n.class = "RBNodeTranslateRotate3" ->
         LET p1 == IF n.useEuler THEN SetSub(p, n.stateOffset, Sub3(n.theta, 0))
                   ELSE SetSub(p, n.stateOffset, n.q)
         IN  SetSub(p1, n.stateOffset + getBallDim(n), Sub3(n.theta, 3))
    [] OTHER -> SetSub(p, n.stateOffset, n.theta)

----------------------------------------------------------------------------
(* Velocity kinematics *)

\* The 3x4 matrix M of setBallVel, with omega = 2 * M * dq.
BallM34(q) ==
  << << Neg(q[2]), q[1], Neg(q[4]), q[3] >>,
     << Neg(q[3]), q[4], q[1], Neg(q[2]) >>,
     << Neg(q[4]), Neg(q[3]), q[2], q[1] >> >>

\* The 4x3 matrix M of calcBallAccel and setBallDerivs, with dq = M * omega / 2.
BallM43(q) ==
  << << Neg(q[2]), Neg(q[3]), Neg(q[4]) >>,
     << q[1], q[4], Neg(q[3]) >>,
     << Neg(q[4]), q[1], q[2] >>,
     << q[3], Neg(q[2]), q[1] >> >>

\* ContainedBallJoint::setBallVel: the node with dq set (quaternion mode) and its
\* first three generalized speeds.
setBallVel(n, velv) ==
  IF n.useEuler
  THEN [n EXCEPT !.dTheta = SetSub(n.dTheta, 0, Sub3(velv, n.stateOffset))]
  ELSE LET dq == SubV(velv, n.stateOffset, 4)
       IN  [n EXCEPT !.dq = dq,
                     !.dTheta = SetSub(n.dTheta, 0,
                                       VScale(Num(2), MatVec(BallM34(n.q), dq)))]

\* setJointVel of RigidBodyNodeSpec, RBNodeRotate3 and RBNodeTranslateRotate3
setJointVel(n, velv) ==
  CASE n.class = "RBNodeRotate3" -> setBallVel(n, velv)
    [] n.class = "RBNodeTranslateRotate3" ->
         LET m == setBallVel(n, velv)
         IN  [m EXCEPT !.dTheta =
                SetSub(m.dTheta, 3, Sub3(velv, n.stateOffset + getBallDim(n)))]
    [] OTHER -> [n EXCEPT !.dTheta = SubV(velv, n.stateOffset, n.dof)]

\* calcJointKinematicsVel, the same in every joint class
calcJointKinematicsVel(n) == [n EXCEPT !.V_PB_G = MatVec(Transpose(n.H), n.dTheta)]

ShiftVelWithPhi(n, parentVel) == VAdd(PhiMul(n.phi, parentVel), n.V_PB_G)
\* The spatial velocity of calcJointIndependentKinematicsVel
ShiftVel(n, parentVel) == VAdd(PhiTMul(n.phi, parentVel), n.V_PB_G)

\* RigidBodyNode::calcJointIndependentKinematicsVel
calcJointIndependentKinematicsVel(ns, n) ==
  LET parent == ns[n.parent]
      sVel == ShiftVel(n, parent.sVel)
      omega == Sub3(sVel, 0)
      gMoment == Cross(omega, MatVec(n.inertia_OB_G, omega))
      gForce == VScale(n.mass, Cross(omega, Cross(omega, n.COMstation_G)))
      vl == Sub3(sVel, 3)
      pOmega == Sub3(parent.sVel, 0)
      pVel == Sub3(parent.sVel, 3)
      a0 == MatVec(blockMat22(crossMat(pOmega), zero33, zero33, crossMat(pOmega)),
                   n.V_PB_G)
  IN  [ n EXCEPT !.sVel = sVel,
                 !.b = blockVec(gMoment, gForce),
                 !.a = VAdd(a0, blockVec(Zero3, Cross(pOmega, VSub(vl, pVel)))) ]

\* setVel: RBGroundBody's does nothing
setVel(ns, n, velv) ==
  IF IsGround(n) THEN n
  ELSE calcJointIndependentKinematicsVel(ns,
         calcJointKinematicsVel(setJointVel(n, velv)))

\* getVel: the caller's vector v after the call
getVel(n, v) ==
  CASE IsGround(n) -> v
    [] n.class = "RBNodeRotate3" ->
         IF n.useEuler THEN SetSub(v, n.stateOffset, n.dTheta)
         ELSE SetSub(v, n.stateOffset, n.dq)
    [] n.class = "RBNodeTranslateRotate3" ->
         LET v1 == IF n.useEuler THEN SetSub(v, n.stateOffset, Sub3(n.dTheta, 0))
                   ELSE SetSub(v, n.stateOffset, n.dq)
         IN  SetSub(v1, n.stateOffset + getBallDim(n), Sub3(n.dTheta, 3))
    [] OTHER -> SetSub(v, n.stateOffset, n.dTheta)

----------------------------------------------------------------------------
(* Constraint projection *)

ProjectBeforeNormalizing(q0, dq0) ==
  [ q |-> VDivS(q0, Norm(q0)), dq |-> VSub(dq0, VScale(Dot(q0, dq0), q0)) ]
\* The two assignments of enforceBallConstraints: q /= norm(q), then
\* dq -= dot(q, dq) * q with the q just normalized.
NormalizeAndProject(q0, dq0) ==
  LET q == VDivS(q0, Norm(q0))
  IN  [ q |-> q, dq |-> VSub(dq0, VScale(Dot(q, dq0), q)) ]

enforceWithoutWriteBack(n, posv, velv) ==
  IF IsQuat(n)
  THEN LET r == NormalizeAndProject(SubV(posv, n.stateOffset, 4),
                                    SubV(velv, n.stateOffset, 4))
       IN  [ node |-> [n EXCEPT !.q = r.q, !.dq = r.dq], posv |-> posv, velv |-> velv ]
  ELSE [ node |-> n, posv |-> posv, velv |-> velv ]
\* enforceConstraints(posv, velv): nothing but for the quaternion ball of a
\* rotate3 or full joint (ContainedBallJoint::enforceBallConstraints).  Gives the
\* node and the two vectors after the call.
enforceConstraints(n, posv, velv) ==
  IF IsQuat(n)
  THEN LET r == NormalizeAndProject(SubV(posv, n.stateOffset, 4),
                                    SubV(velv, n.stateOffset, 4))
       IN  [ node |-> [n EXCEPT !.q = r.q, !.dq = r.dq],
             posv |-> SetSub(posv, n.stateOffset, r.q),
             velv |-> SetSub(velv, n.stateOffset, r.dq) ]
  ELSE [ node |-> n, posv |-> posv, velv |-> velv ]

----------------------------------------------------------------------------
(* Dynamics: articulated-body inertias, residual forces, accelerations *)

\* The rows from k on that can give column k its pivot.
PivotRows(M, k, n) == { p \in k..n : M[p][k] # Zero }
\* Row k made the pivot row piv and column k cleared from the other rows of S.
Eliminate(S, piv, k, n) ==
  Tuple([i \in 1..n |-> IF i = k THEN piv ELSE VSub(S[i], VScale(S[i][k], piv))])
\* Rows p and k exchanged, the pivot row scaled to a leading 1, column k cleared.
PivotOn(M, p, k, n) ==
  Eliminate([M EXCEPT ![p] = M[k]], VDivS(M[p], M[p][k]), k, n)
FirstOf(S) == CHOOSE r \in S : \A o \in S : r <= o

RECURSIVE GaussJordan(_, _, _)
\* Gauss-Jordan elimination of columns k..n of the n-row matrix M, or <<>> when
\* a column has no pivot left.
GaussJordan(M, k, n) ==
  IF k > n THEN M
  ELSE IF PivotRows(M, k, n) = {} THEN <<>>
  ELSE GaussJordan(PivotOn(M, FirstOf(PivotRows(M, k, n)), k, n), k + 1, n)
RightHalf(R, n) == IF R = <<>> THEN <<>> ELSE Block(R, 0, n, n, n)
\* inverse(D): the inverse, or <<>> where inverse raises SingularError.
inverse(D) == RightHalf(GaussJordan(blockMat12(D, Ident(Len(D))), 1, Len(D)), Len(D))

\* calcD_G past the try block: DI and G assigned.
SetDI_G(n, P, DI) ==
  [ fail |-> "none", cerr |-> <<>>,
    node |-> [n EXCEPT !.DI = DI, !.G = MatMul(MatMul(P, Transpose(n.H)), DI)] ]
\* The catch block of calcD_G: D, H, the level and the number of children go to
\* cerr and an Exception is thrown.
SingularD(n, D) ==
  [ fail |-> "calcD_G: singular D matrix. Bad topology?",
    cerr |-> [D |-> D, H |-> n.H, level |-> n.level, children |-> Len(n.children)],
    node |-> n ]
\* calcD_G with D and what inverse(D) gave.
TryInverse(n, P, D, DI) == IF DI = <<>> THEN SingularD(n, D) ELSE SetDI_G(n, P, DI)

ZeroIfNone(I, dof) == IF I = <<>> THEN MatOf(dof, dof, Zero) ELSE I
calcD_GGoingOn(n, P) ==
  SetDI_G(n, P, ZeroIfNone(inverse(orthoTransform(P, n.H)), n.dof))
\* RigidBodyNodeSpec::calcD_G(P): the node with DI and G set, or the failure and
\* what is written to cerr.
calcD_G(n, P) ==
  TryInverse(n, P, orthoTransform(P, n.H), inverse(orthoTransform(P, n.H)))

AddChildBlocksUnshifted(p, lt, m11, m12, m21, m22) ==
  [ p11 |-> MatAdd(p.p11, m11), p12 |-> MatAdd(p.p12, m12),
    p21 |-> MatAdd(p.p21, m21), p22 |-> MatAdd(p.p22, m22) ]
\* The blocks p of P after one more child of calcP's loop, lt and the blocks of
\* M = tau * P being the child's.
AddChildBlocks(p, lt, m11, m12, m21, m22) ==
  [ p11 |-> MatAdd(p.p11,
              MatSub(MatSub(MatAdd(m11, MatMul(lt, m21)), MatMul(m12, lt)),
                     MatMul(MatMul(lt, m22), lt))),
    p12 |-> MatAdd(p.p12, MatAdd(m12, MatMul(lt, m22))),
    p21 |-> MatAdd(p.p21, MatSub(m21, MatMul(m22, lt))),
    p22 |-> MatAdd(p.p22, m22) ]
AddChild(p, lt, M) ==
  AddChildBlocks(p, lt, Block(M, 0, 0, 3, 3), Block(M, 0, 3, 3, 3),
                 Block(M, 3, 0, 3, 3), Block(M, 3, 3, 3, 3))

RECURSIVE calcPChildren(_, _, _)
\* The four 3x3 blocks of P after the loop of calcP over the first k children.
calcPChildren(ns, n, k) ==
  IF k = 0
  THEN [ p11 |-> Block(n.Mk, 0, 0, 3, 3), p12 |-> Block(n.Mk, 0, 3, 3, 3),
         p21 |-> Block(n.Mk, 3, 0, 3, 3), p22 |-> Block(n.Mk, 3, 3, 3, 3) ]
  ELSE AddChild(calcPChildren(ns, n, k - 1),
                crossMat(VSub(ns[n.children[k]].OB_G, n.OB_G)),
                MatMul(ns[n.children[k]].tau, ns[n.children[k]].P))

\* P of its four blocks.
JoinBlocks(p) == blockMat22(p.p11, p.p12, p.p21, p.p22)
\* The end of calcP: tau = 1 - G * H and psiT = tau^T * phi^T.
SetTauPsiT(n, tau) ==
  [ n EXCEPT !.tau = tau,
             !.psiT = MatMul(Transpose(tau), Transpose(PhiMat(n.phi))) ]
\* calcP after calcD_G has given r.
AfterD_G(r) ==
  IF r.fail # "none" THEN r
  ELSE [ r EXCEPT !.node =
           SetTauPsiT(r.node, MatSub(Ident(6), MatMul(r.node.G, r.node.H))) ]
\* calcP from the P its loop has built.
calcPWith(n, P) == AfterD_G(calcD_G([n EXCEPT !.P = P], P))

\* calcP: RBGroundBody's does nothing.  Gives the node after the call and the
\* failure that ended it, if any.
calcP(ns, n) ==
  IF IsGround(n) THEN [ fail |-> "none", cerr |-> <<>>, node |-> n ]
  ELSE calcPWith(n, JoinBlocks(calcPChildren(ns, n, Len(n.children))))

RECURSIVE calcZChildren(_, _, _)
\* The sum of calcZ over the first k children.
calcZChildren(ns, n, k) ==
  IF k = 0 THEN Zero6
  ELSE LET child == ns[n.children[k]]
       IN  VAdd(calcZChildren(ns, n, k - 1),
                PhiMul(child.phi, VAdd(child.z, child.Gepsilon)))

calcZAddingForce(ns, n, spatialForce) ==
  IF IsGround(n) THEN n
  ELSE LET z == VAdd(VAdd(VAdd(MatVec(n.P, n.a), n.b), spatialForce),
                     calcZChildren(ns, n, Len(n.children)))
           epsilon == VSub(n.forceInternal, MatVec(n.H, z))
       IN  [ n EXCEPT !.z = z, !.epsilon = epsilon,
                      !.nu = MatVec(n.DI, epsilon),
                      !.Gepsilon = MatVec(n.G, epsilon) ]
\* calcZ(spatialForce): RBGroundBody's does nothing
calcZ(ns, n, spatialForce) ==
  IF IsGround(n) THEN n
  ELSE LET z == VAdd(VSub(VAdd(MatVec(n.P, n.a), n.b), spatialForce),
                     calcZChildren(ns, n, Len(n.children)))
           epsilon == VSub(n.forceInternal, MatVec(n.H, z))
       IN  [ n EXCEPT !.z = z, !.epsilon = epsilon,
                      !.nu = MatVec(n.DI, epsilon),
                      !.Gepsilon = MatVec(n.G, epsilon) ]

calcBallAccelLeavingDdq(n, omega, dOmega) == n
\* ContainedBallJoint::calcBallAccel: the second derivative of the quaternion
calcBallAccel(n, omega, dOmega) ==
  IF n.useEuler THEN n
  ELSE [ n EXCEPT !.ddq = VScale(Rat(1, 2),
                                 VAdd(MatVec(BallM43(n.dq), omega),
                                      MatVec(BallM43(n.q), dOmega))) ]

\* calcJointAccel of RigidBodyNodeSpec, RBNodeRotate3, RBNodeTranslateRotate3
calcJointAccel(n) ==
  CASE n.class = "RBNodeRotate3" -> calcBallAccel(n, n.dTheta, n.ddTheta)
    [] n.class = "RBNodeTranslateRotate3" ->
         calcBallAccel(n, Sub3(n.dTheta, 0), Sub3(n.ddTheta, 0))
    [] OTHER -> n

\* calcAccel: RBGroundBody's does nothing
calcAccel(ns, n) ==
  IF IsGround(n) THEN n
  ELSE LET alphap == PhiTMul(n.phi, ns[n.parent].sAcc)
           ddTheta == VSub(n.nu, MatVec(Transpose(n.G), alphap))
       IN  calcJointAccel(
             [ n EXCEPT !.ddTheta = ddTheta,
                        !.sAcc = VAdd(VAdd(alphap, MatVec(Transpose(n.H), ddTheta)),
                                      n.a) ])

\* getAccel: the caller's vector a after the call
getAccel(n, a) ==
  CASE IsGround(n) -> a
    [] n.class = "RBNodeRotate3" ->
         IF n.useEuler THEN SetSub(a, n.stateOffset, n.ddTheta)
         ELSE SetSub(a, n.stateOffset, n.ddq)
    [] n.class = "RBNodeTranslateRotate3" ->
         LET a1 == IF n.useEuler THEN SetSub(a, n.stateOffset, Sub3(n.ddTheta, 0))
                   ELSE SetSub(a, n.stateOffset, n.ddq)
         IN  SetSub(a1, n.stateOffset + getBallDim(n), Sub3(n.ddTheta, 3))
    [] OTHER -> SetSub(a, n.stateOffset, n.ddTheta)

----------------------------------------------------------------------------
(* The tree: RigidBodyNode::addChild *)

\* parent.addChild(child, referenceFrame), on the nodes ns.
addChild(ns, p, c, referenceFrame) ==
  LET refOrigin_P == referenceFrame.Loc_RF
      OB_G == VAdd(ns[p].OB_G, refOrigin_P)
  IN  [ ns EXCEPT ![p].children = Append(ns[p].children, c),
                  ![c].parent = p,
                  ![c].refOrigin_P = refOrigin_P,
                  ![c].R_GB = ns[p].R_GB,
                  ![c].OB_G = OB_G,
                  ![c].COM_G = VAdd(OB_G, ns[c].COMstation_G) ]

\* The level the tree gives a node it takes in: one more than its parent's.
setLevel(ns, c) == [ ns EXCEPT ![c].level = ns[ns[c].parent].level + 1 ]

----------------------------------------------------------------------------
(* Systems: a tree assembled by create and addChild, ground first, and the  *)
(* vectors its caller fills.                                                 *)

Body(type, useEuler, jointFrame, m, parent, ref) ==
  [type |-> type, useEuler |-> useEuler, jointFrame |-> jointFrame, m |-> m,
   parent |-> parent, ref |-> ref]

RECURSIVE Assemble(_, _)
\* The nodes and the counter after creating the first k bodies of a script, each
\* attached to its parent as soon as it is created.
Assemble(script, k) ==
  IF k = 0 THEN [nodes |-> <<>>, cnt |-> 0]
  ELSE LET before == Assemble(script, k - 1)
           e == script[k]
           r == create(e.m, e.jointFrame, e.type, FALSE, e.useEuler, before.cnt)
           ns == Append(before.nodes, r.node)
       IN  [ nodes |-> IF e.parent = 0 THEN ns
                       ELSE setLevel(addChild(ns, e.parent, k,
                                              Frame(ident33, e.ref)), k),
             cnt |-> r.cnt ]

Ground == Body("ThisIsGround", TRUE, IdFrame, NoMass, 0, Zero3)
\* Mass 2 at (1, 0, 0), central inertia the identity.
OffMass == MassProps(Num(2), ex,
                     << <<One, Zero, Zero>>, <<Zero, Num(3), Zero>>,
                        <<Zero, Zero, Num(3)>> >>)

KinScripts ==
  { << Ground,
       Body("OrientationJoint", FALSE, IdFrame, OffMass, 1, Zero3),
       Body("TorsionJoint", TRUE, TurnedFrame, UnitMass, 2, ex) >>,
    << Ground,
       Body("FreeJoint", FALSE, IdFrame, OffMass, 1, Zero3),
       Body("UJoint", TRUE, TurnedFrame, UnitMass, 2, IVec(<<0, 2, 0>>)) >>,
    << Ground,
       Body("OrientationJoint", TRUE, IdFrame, OffMass, 1, ex),
       Body("FreeLineJoint", TRUE, IdFrame, UnitMass, 2, ey) >>,
    << Ground,
       Body("FreeJoint", TRUE, IdFrame, OffMass, 1, Zero3),
       Body("CartesianJoint", TRUE, IdFrame, UnitMass, 2, ez) >>,
    << Ground,
       Body("TorsionJoint", TRUE, IdFrame, OffMass, 1, ey),
       Body("OrientationJoint", FALSE, IdFrame, UnitMass, 1, ex) >> }

Variants == {1, 2, 3}
HalfPi == Div(Pi, Num(2))
Pick(v, a, b, c) == IF v = 1 THEN a ELSE IF v = 2 THEN b ELSE c

\* Coordinates for one node: angles in radians for the torsion, U-joint and diatom
\* joints, in degrees for an Euler ball, a non-zero quaternion for a quaternion
\* ball (of rational norm, unit or not), then translations.
Translation(v) == Pick(v, IVec(<<1, 2, 3>>), Zero3, IVec(<<-1, 0, 2>>))
EulerAngles(v) == Pick(v, IVec(<<90, 0, 0>>), IVec(<<180, 90, -90>>), IVec(<<0, 0, 0>>))
Quaternion(v) == Pick(v, IVec(<<2, 0, 0, 0>>),
                         << Rat(1, 2), Rat(1, 2), Rat(1, 2), Rat(1, 2) >>,
                         IVec(<<0, 3, -4, 0>>))
TwoAngles(v) == Pick(v, <<HalfPi, Zero>>, <<Pi, HalfPi>>, <<Zero, Neg(HalfPi)>>)
Coords(n, v) ==
  CASE n.class = "RBGroundBody" -> <<>>
    [] n.class = "RBNodeTorsion" -> Pick(v, <<HalfPi>>, <<Pi>>, <<Zero>>)
    [] n.class = "RBNodeRotate2" -> TwoAngles(v)
    [] n.class = "RBNodeTranslate" -> Translation(v)
    [] n.class = "RBNodeTranslateRotate2" -> TwoAngles(v) \o Translation(v)
    [] n.class = "RBNodeRotate3" ->
         IF n.useEuler THEN EulerAngles(v) ELSE Quaternion(v)
    [] n.class = "RBNodeTranslateRotate3" ->
         (IF n.useEuler THEN EulerAngles(v) ELSE Quaternion(v)) \o Translation(v)

\* Velocities for one node: generalized speeds, or the quaternion's derivative.
Speeds3(v) == Pick(v, IVec(<<0, 1, 0>>), IVec(<<1, -2, 3>>), Zero3)
QuatRate(v) == Pick(v, VecOf(4, Rat(1, 10)), IVec(<<1, 0, -1, 2>>), VecOf(4, Zero))
Rates(n, v) ==
  CASE n.class = "RBGroundBody" -> <<>>
    [] n.class = "RBNodeTorsion" -> Pick(v, <<One>>, <<Num(-2)>>, <<Zero>>)
    [] n.class = "RBNodeRotate2" -> Pick(v, IVec(<<1, 2>>), IVec(<<0, -1>>), IVec(<<0, 0>>))
    [] n.class = "RBNodeTranslate" -> Speeds3(v)
    [] n.class = "RBNodeTranslateRotate2" ->
         Pick(v, IVec(<<1, 2>>), IVec(<<0, -1>>), IVec(<<0, 0>>)) \o Speeds3(v)
    [] n.class = "RBNodeRotate3" -> IF n.useEuler THEN Speeds3(v) ELSE QuatRate(v)
    [] n.class = "RBNodeTranslateRotate3" ->
         (IF n.useEuler THEN Speeds3(v) ELSE QuatRate(v)) \o Speeds3(v)

RECURSIVE FillCoords(_, _, _)
\* The coordinate vector holding Coords(n, v) in the slice of each of the first
\* k nodes.
FillCoords(ns, k, v) ==
  IF k = 0 THEN VecOf(ns[Len(ns)].stateOffset + getDim(ns[Len(ns)]), Zero)
  ELSE SetSub(FillCoords(ns, k - 1, v), ns[k].stateOffset, Coords(ns[k], v))

RECURSIVE FillRates(_, _, _)
FillRates(ns, k, v) ==
  IF k = 0 THEN VecOf(ns[Len(ns)].stateOffset + getDim(ns[Len(ns)]), Zero)
  ELSE SetSub(FillRates(ns, k - 1, v), ns[k].stateOffset, Rates(ns[k], v))

\* A vector of n entries that are no coordinate of any node.
\* The spatial force (moment, then force) on every body: gravity on a unit mass,
\* a general one, none.
SpatialForce(v) ==
  Pick(v, << Zero, Zero, Zero, Zero, Rat(-49, 5), Zero >>, IVec(<<1, 2, 3, 4, 5, 6>>), Zero6)

Blank(n) == Tuple([i \in 1..n |-> Num(100 + i)])
BlankOut == [pos |-> Blank(cnt), vel |-> Blank(cnt), acc |-> Blank(cnt)]

----------------------------------------------------------------------------
(* Passes.  The caller visits the nodes in index order, base to tip, or in   *)
(* reverse, tip to base, one call per node; a pass starts when none is under *)
(* way and what it needs is current.                                         *)

N == Len(nodes)
Needs(p) ==
  CASE p = "pos" -> {}
    [] p \in {"vel", "enforce", "getPos", "P"} -> {"pos"}
    [] p = "getVel" -> {"pos", "vel"}
    [] p = "Z" -> {"pos", "vel", "P"}
    [] p = "Y" -> {"pos", "P"}
    [] p = "accel" -> {"pos", "vel", "P", "Z"}
    [] p = "getAccel" -> {"pos", "vel", "P", "Z", "accel"}
\* What starting pass p makes stale.
Stales(p) ==
  CASE p \in {"pos", "enforce"} -> {"pos", "vel", "P", "Z", "accel", "force", "force2"}
    [] p = "vel" -> {"vel", "Z", "accel"}
    [] p = "P" -> {"P", "Z", "accel"}
    [] p = "Z" -> {"Z", "accel"}
    [] p = "accel" -> {"accel"}
    [] OTHER -> {}
TipToBaseNever(p) == FALSE
TipToBase(p) == p \in {"P", "Z"}
First(p) == IF TipToBase(p) THEN N ELSE 1
Last(p) == IF TipToBase(p) THEN 1 ELSE N
Following(p, i) == IF TipToBase(p) THEN i - 1 ELSE i + 1

\* Pass p may visit a node now.
MayVisit(p) ==
  /\ failure = "none"
  /\ \/ pass = p
     \/ pass = "idle" /\ Needs(p) \subseteq cur
\* The node pass p visits now.
Visited(p) == IF pass = p THEN cursor ELSE First(p)
\* The pass moves on from node i; the vector passed to the get calls is a fresh
\* one in every pass.
MoveOn(p, i) ==
  /\ pass' = IF i = Last(p) THEN "idle" ELSE p
  /\ cursor' = IF i = Last(p) THEN 0 ELSE Following(p, i)
  /\ cur' = IF i = Last(p) /\ p \in {"pos", "vel", "P", "Z", "accel"}
            THEN (cur \ Stales(p)) \cup {p} ELSE cur \ Stales(p)
  /\ call' = Call(p, "none", FALSE, FALSE, i, 0)
OutNow(p) == IF pass = p THEN out ELSE BlankOut

SetPos ==
  /\ MayVisit("pos")
  /\ LET i == Visited("pos")
     IN  /\ nodes' = [nodes EXCEPT ![i] = setPos(nodes, nodes[i], pos)]
         /\ MoveOn("pos", i)
  /\ out' = BlankOut
  /\ UNCHANGED << cnt, failure, cerr, pos, vel, pos0, vel0, force, enforced >>

SetVel ==
  /\ MayVisit("vel")
  /\ LET i == Visited("vel")
     IN  /\ nodes' = [nodes EXCEPT ![i] = setVel(nodes, nodes[i], vel)]
         /\ MoveOn("vel", i)
  /\ out' = BlankOut
  /\ UNCHANGED << cnt, failure, cerr, pos, vel, pos0, vel0, force, enforced >>

GetPos ==
  /\ MayVisit("getPos")
  /\ LET i == Visited("getPos")
     IN  /\ out' = [OutNow("getPos") EXCEPT !.pos = getPos(nodes[i], @)]
         /\ MoveOn("getPos", i)
  /\ UNCHANGED << nodes, cnt, failure, cerr, pos, vel, pos0, vel0, force, enforced >>

GetVel ==
  /\ MayVisit("getVel")
  /\ LET i == Visited("getVel")
     IN  /\ out' = [OutNow("getVel") EXCEPT !.vel = getVel(nodes[i], @)]
         /\ MoveOn("getVel", i)
  /\ UNCHANGED << nodes, cnt, failure, cerr, pos, vel, pos0, vel0, force, enforced >>

Enforce ==
  /\ MayVisit("enforce")
  /\ LET i == Visited("enforce")
         r == enforceConstraints(nodes[i], pos, vel)
     IN  /\ nodes' = [nodes EXCEPT ![i] = r.node]
         /\ pos' = r.posv
         /\ vel' = r.velv
         /\ enforced' = enforced \cup {i}
         /\ MoveOn("enforce", i)
  /\ out' = BlankOut
  /\ UNCHANGED << cnt, failure, cerr, pos0, vel0, force >>

\* A system assembled from one of the scripts, its vectors filled by the caller.
InitSystem(scripts, forces) ==
  \E script \in scripts, pv \in Variants, vv \in Variants, fv \in forces :
    LET sys == Assemble(script, Len(script))
    IN  /\ nodes = sys.nodes
        /\ cnt = sys.cnt
        /\ pos = FillCoords(sys.nodes, Len(sys.nodes), pv)
        /\ vel = FillRates(sys.nodes, Len(sys.nodes), vv)
        /\ out = [pos |-> Blank(sys.cnt), vel |-> Blank(sys.cnt),
                  acc |-> Blank(sys.cnt)]
        /\ force = Tuple([i \in 1..Len(sys.nodes) |-> SpatialForce(fv)])
  /\ pos0 = pos
  /\ vel0 = vel
  /\ call = NoCall
  /\ failure = "none"
  /\ cerr = <<>>
  /\ pass = "idle" /\ cursor = 0 /\ cur = {} /\ enforced = {}

InitKin == InitSystem(KinScripts, {3})
NextKin == SetPos \/ SetVel \/ GetPos \/ GetVel \/ Enforce
SpecKin == InitKin /\ [][NextKin]_vars

----------------------------------------------------------------------------
(* Properties of the kinematics passes *)

\* The nodes the running or last pass has visited, base to tip.
Seen == 1..call.node
InSeenSlice(k) == \E j \in Seen : k \in SliceOf(nodes[j])
\* The four quaternion slots of node i in a tree-wide vector.
Quat4(v, i) == SubV(v, nodes[i].stateOffset, 4)

\* C2: after setPos(pos) on the nodes, getPos(p') has made p' equal to pos on the
\* slice of every node it has been called on and has left all other entries of
\* p' as they were; likewise setVel(vel) and getVel(v'), the quaternion
\* derivative being returned as set and a free joint's translation entries
\* following its 3 or 4 orientation entries.
C2_RoundTrip ==
  /\ call.op = "getPos" =>
       \A k \in 0..(cnt - 1) :
         out.pos[k + 1] = IF InSeenSlice(k) THEN pos[k + 1] ELSE Blank(cnt)[k + 1]
  /\ call.op = "getVel" =>
       \A k \in 0..(cnt - 1) :
         out.vel[k + 1] = IF InSeenSlice(k) THEN vel[k + 1] ELSE Blank(cnt)[k + 1]
  /\ call.op \in {"getPos", "getVel"} =>
       \A i \in Seen :
         nodes[i].class = "RBNodeTranslateRotate3" =>
           LET o == nodes[i].stateOffset + (IF nodes[i].useEuler THEN 3 ELSE 4)
           IN  IF call.op = "getPos" THEN Sub3(out.pos, o) = Sub3(nodes[i].theta, 3)
               ELSE Sub3(out.vel, o) = Sub3(nodes[i].dTheta, 3)
\* Both get passes have read back a free joint in quaternion mode whose
\* quaternion is not a unit one and whose derivative is not zero.
C2_Witness ==
  /\ call.op = "getVel" /\ call.node = N
  /\ \E i \in 1..N :
       /\ nodes[i].class = "RBNodeTranslateRotate3" /\ IsQuat(nodes[i])
       /\ Quat4(out.vel, i) = Quat4(vel, i)
       /\ Quat4(vel, i) # VecOf(4, Zero)
       /\ Dot(nodes[i].q, nodes[i].q) # One
       /\ Sub3(vel, nodes[i].stateOffset + 4) # Zero3

\* C5: once enforceConstraints(pos, vel) has been called on a quaternion ball or
\* free joint after setPos, the stored quaternion and the four entries of pos
\* have norm 1, and the stored derivative and the four entries of vel are
\* orthogonal to the quaternion.
C5_UnitAndTangent ==
  \A i \in enforced :
    IsQuat(nodes[i]) =>
      /\ Norm(nodes[i].q) = One
      /\ Norm(Quat4(pos, i)) = One
      /\ Dot(nodes[i].q, nodes[i].dq) = Zero
      /\ Dot(nodes[i].q, Quat4(vel, i)) = Zero
\* A quaternion joint set from a non-unit quaternion and a derivative with a
\* component along it has been through enforceConstraints.
C5_Witness ==
  \E i \in enforced :
    /\ IsQuat(nodes[i])
    /\ Norm(Quat4(pos0, i)) # One
    /\ Dot(Quat4(pos0, i), Quat4(vel0, i)) # Zero
    /\ Quat4(pos, i) = nodes[i].q

\* What a step that calls enforceConstraints on a quaternion joint does.
EnforceStep(i) ==
  LET q0 == Quat4(pos, i)
      dq0 == Quat4(vel, i)
      q1 == VDivS(q0, Norm(q0))
      dq1 == VSub(dq0, VScale(Dot(q1, dq0), q1))
  IN  /\ nodes'[i].q = q1 /\ Quat4(pos', i) = q1
      /\ nodes'[i].dq = dq1 /\ Quat4(vel', i) = dq1
      /\ q0 = IVec(<<2, 0, 0, 0>>) /\ dq0 = VecOf(4, Rat(1, 10)) =>
           /\ q1 = IVec(<<1, 0, 0, 0>>)
           /\ nodes'[i].dq = << Zero, Rat(1, 10), Rat(1, 10), Rat(1, 10) >>
      /\ i \in enforced =>
           /\ nodes'[i] = nodes[i]
           /\ pos' = pos /\ vel' = vel
\* C6: enforceBallConstraints in quaternion mode normalizes q, then takes from
\* the derivative its component along the normalized q; q = (2,0,0,0) with
\* derivative (0.1,0.1,0.1,0.1) become (1,0,0,0) and (0,0.1,0.1,0.1); a second
\* application changes nothing.
C6_NormalizeThenProject ==
  [][ call'.op = "enforce" /\ IsQuat(nodes[call'.node]) => EnforceStep(call'.node) ]_vars
\* The example's joint has just been through enforceConstraints for the second
\* time: its R_PB is the identity, which the position pass made of the
\* quaternion (1,0,0,0) the first time had left in pos.
C6_Witness ==
  /\ call.op = "enforce"
  /\ \E i \in enforced :
       /\ i = call.node
       /\ IsQuat(nodes[i])
       /\ Quat4(pos0, i) = IVec(<<2, 0, 0, 0>>)
       /\ Quat4(vel0, i) = VecOf(4, Rat(1, 10))
       /\ nodes[i].dq = << Zero, Rat(1, 10), Rat(1, 10), Rat(1, 10) >>
       /\ nodes[i].R_PB = ident33

\* C7 as stated: right after setPos on a quaternion joint the stored quaternion
\* has norm 1, whatever the input.
C7_Original ==
  call.op = "pos" /\ IsQuat(nodes[call.node]) => Norm(nodes[call.node].q) = One
\* C7: right after setPos on a quaternion joint the stored quaternion is the four
\* entries of the input vector as given, so that its norm is 1 exactly when
\* theirs is.
C7_StoredAsGiven ==
  call.op = "pos" /\ IsQuat(nodes[call.node]) =>
    /\ nodes[call.node].q = Quat4(pos, call.node)
    /\ (Norm(nodes[call.node].q) = One) <=> (Norm(Quat4(pos, call.node)) = One)
\* setPos has stored a quaternion of norm 2.
C7_Witness ==
  /\ call.op = "pos" /\ IsQuat(nodes[call.node])
  /\ Norm(nodes[call.node].q) = Num(2)

\* C9: after a position pass and a velocity pass, the spatial velocity of every
\* node but the ground is its parent's shifted to the node's origin (the
\* angular part kept, omega x r added to the linear part, r the node's origin
\* less the parent's, in ground) plus H^T * dTheta; the ground's is zero.
C9_VelocityRecursion ==
  {"pos", "vel"} \subseteq cur =>
    \A i \in 1..N :
      IF IsGround(nodes[i]) THEN nodes[i].sVel = Zero6
      ELSE LET p == nodes[nodes[i].parent]
               r == VSub(nodes[i].OB_G, p.OB_G)
               w == Sub3(p.sVel, 0)
               v == Sub3(p.sVel, 3)
           IN  nodes[i].sVel =
                 VAdd(blockVec(w, VAdd(v, Cross(w, r))),
                      MatVec(Transpose(nodes[i].H), nodes[i].dTheta))
\* Both passes are done and some node's parent turns about an axis that is not
\* along the node's offset.
C9_Witness ==
  /\ {"pos", "vel"} \subseteq cur
  /\ \E i \in 1..N :
       /\ ~IsGround(nodes[i])
       /\ Cross(Sub3(nodes[nodes[i].parent].sVel, 0),
                VSub(nodes[i].OB_G, nodes[nodes[i].parent].OB_G)) # Zero3
       /\ nodes[i].dTheta # VecOf(nodes[i].dof, Zero)


\* C19: when the position pass is done, the spatial inertia Mk of every body
\* whose body-frame inertia is symmetric is a symmetric 6x6 matrix; its upper
\* right block is mass * crossMat(COMstation_G) with COMstation_G = R_GB * COM_B,
\* which is skew-symmetric, its lower left block is the negation of that block
\* and its lower right block is mass * identity.
C19_SpatialInertiaSymmetric ==
  "pos" \in cur =>
    \A i \in 1..N :
      (~IsGround(nodes[i]) /\ nodes[i].inertia_OB_B = Transpose(nodes[i].inertia_OB_B)) =>
        LET Mk == nodes[i].Mk
            upperRight == Block(Mk, 0, 3, 3, 3)
        IN  /\ Mk = Transpose(Mk)
            /\ nodes[i].COMstation_G = MatVec(nodes[i].R_GB, nodes[i].COM_B)
            /\ upperRight = MatScale(nodes[i].mass, crossMat(nodes[i].COMstation_G))
            /\ upperRight = MatNeg(Transpose(upperRight))
            /\ Block(Mk, 3, 0, 3, 3) = MatNeg(upperRight)
            /\ Block(Mk, 3, 3, 3, 3) = MatScale(nodes[i].mass, ident33)
\* The position pass is done and some body with its centre of mass off its
\* origin has been turned, so that its inertia in ground has products of inertia.
C19_Witness ==
  /\ "pos" \in cur
  /\ \E i \in 1..N :
       /\ ~IsGround(nodes[i])
       /\ nodes[i].COMstation_G \notin {Zero3, nodes[i].COM_B}
       /\ Block(nodes[i].Mk, 0, 3, 3, 3) # zero33
       /\ nodes[i].inertia_OB_G[1][2] # Zero
----------------------------------------------------------------------------
(* A dynamics step: the kinematics passes, then P tip to base, z tip to base *)
(* with the applied forces, then the accelerations base to tip.              *)

DynScripts ==
  { << Ground, Body("CartesianJoint", TRUE, IdFrame, UnitMass, 1, Zero3) >>,
    << Ground, Body("CartesianJoint", TRUE, IdFrame, OffMass, 1, ey) >>,
    << Ground, Body("CartesianJoint", TRUE, IdFrame, NoMass, 1, Zero3) >>,
    << Ground,
       Body("TorsionJoint", TRUE, TurnedFrame, NoMass, 1, Zero3),
       Body("FreeLineJoint", TRUE, IdFrame, UnitMass, 2, ex) >>,
    << Ground,
       Body("OrientationJoint", FALSE, IdFrame, OffMass, 1, Zero3),
       Body("TorsionJoint", TRUE, TurnedFrame, UnitMass, 2, ex) >> }

\* The steps are run on quaternions that have been normalized.
UnitQuaternions(ns, posv) ==
  \A i \in 1..Len(ns) :
    IsQuat(ns[i]) => Dot(SubV(posv, ns[i].stateOffset, 4),
                         SubV(posv, ns[i].stateOffset, 4)) = One

CalcP ==
  /\ MayVisit("P")
  /\ LET i == Visited("P")
         r == calcP(nodes, nodes[i])
     IN  /\ nodes' = [nodes EXCEPT ![i] = r.node]
         /\ failure' = r.fail
         /\ cerr' = r.cerr
         /\ IF r.fail = "none" THEN MoveOn("P", i)
            ELSE /\ call' = Call("P", "none", FALSE, FALSE, i, 0)
                 /\ pass' = "P" /\ cursor' = i
                 /\ cur' = cur \ Stales("P")
  /\ out' = BlankOut
  /\ UNCHANGED << cnt, pos, vel, pos0, vel0, force, enforced >>

CalcZ ==
  /\ MayVisit("Z")
  /\ LET i == Visited("Z")
     IN  /\ nodes' = [nodes EXCEPT ![i] = calcZ(nodes, nodes[i], force[i])]
         /\ MoveOn("Z", i)
  /\ out' = BlankOut
  /\ UNCHANGED << cnt, failure, cerr, pos, vel, pos0, vel0, force, enforced >>

CalcAccel ==
  /\ MayVisit("accel")
  /\ LET i == Visited("accel")
     IN  /\ nodes' = [nodes EXCEPT ![i] = calcAccel(nodes, nodes[i])]
         /\ MoveOn("accel", i)
  /\ out' = BlankOut
  /\ UNCHANGED << cnt, failure, cerr, pos, vel, pos0, vel0, force, enforced >>

GetAccel ==
  /\ MayVisit("getAccel")
  /\ LET i == Visited("getAccel")
     IN  /\ out' = [OutNow("getAccel") EXCEPT !.acc = getAccel(nodes[i], @)]
         /\ MoveOn("getAccel", i)
  /\ UNCHANGED << nodes, cnt, failure, cerr, pos, vel, pos0, vel0, force, enforced >>

\* After a step the caller fills the coordinate vector anew.
Refill(v) ==
  /\ failure = "none" /\ pass = "idle" /\ "accel" \in cur
  /\ pos' = FillCoords(nodes, N, v)
  /\ pos' # pos
  /\ UnitQuaternions(nodes, pos')
  /\ pos0' = pos'
  /\ cur' = {}
  /\ call' = Call("refill", "none", FALSE, FALSE, 0, 0)
  /\ out' = BlankOut
  /\ UNCHANGED << nodes, cnt, failure, cerr, vel, vel0, force, pass, cursor, enforced >>

\* A free body spinning about y: ground and one FreeJoint body at the origin,
\* unturned, with angular velocity (0,1,0), no translational velocity and no
\* applied force.  In quaternion mode the velocity vector holds the quaternion
\* derivative (0,0,1/2,0), which at q = (1,0,0,0) is that angular velocity.
TiltMass == MassProps(One, Zero3,
                      << <<Num(2), One, Zero>>, <<One, Num(2), Zero>>,
                         <<Zero, Zero, Num(3)>> >>)
SpinScripts ==
  { << Ground, Body("FreeJoint", e, IdFrame, m, 1, Zero3) >> :
      e \in BOOLEAN, m \in {UnitMass, OffMass, TiltMass} }
SpinCoords(n) == IF n.useEuler THEN Zero6 ELSE IVec(<<1, 0, 0, 0, 0, 0, 0>>)
SpinRates(n) ==
  IF n.useEuler THEN IVec(<<0, 1, 0, 0, 0, 0>>)
  ELSE << Zero, Zero, Rat(1, 2), Zero, Zero, Zero, Zero >>
InitSpin ==
  /\ \E script \in SpinScripts :
       LET sys == Assemble(script, Len(script))
       IN  /\ nodes = sys.nodes
           /\ cnt = sys.cnt
           /\ pos = SpinCoords(sys.nodes[2])
           /\ vel = SpinRates(sys.nodes[2])
           /\ out = [pos |-> Blank(sys.cnt), vel |-> Blank(sys.cnt),
                     acc |-> Blank(sys.cnt)]
           /\ force = << Zero6, Zero6 >>
  /\ pos0 = pos
  /\ vel0 = vel
  /\ call = NoCall
  /\ failure = "none"
  /\ cerr = <<>>
  /\ pass = "idle" /\ cursor = 0 /\ cur = {} /\ enforced = {}

InitDyn ==
  \/ InitSystem(DynScripts, Variants) /\ UnitQuaternions(nodes, pos)
  \/ InitSpin
NextDyn ==
  \/ SetPos \/ SetVel \/ CalcP \/ CalcZ \/ CalcAccel \/ GetAccel
  \/ \E v \in Variants : Refill(v)
SpecDyn == InitDyn /\ [][NextDyn]_vars

----------------------------------------------------------------------------
(* Properties of the dynamics step *)

RECURSIVE Det(_), DetRow(_, _)
\* The determinant, by expansion along the first row.
Det(A) == IF Len(A) = 1 THEN A[1][1] ELSE DetRow(A, Len(A))
\* The terms of the expansion for columns 1..j.
DetRow(A, j) ==
  IF j = 0 THEN Zero
  ELSE LET n == Len(A)
           minor == Tuple([i \in 1..(n - 1) |->
                             Tuple([k \in 1..(n - 1) |->
                                      A[i + 1][IF k < j THEN k ELSE k + 1]])])
           term == Mul(A[1][j], Det(minor))
       IN  Add(DetRow(A, j - 1), IF j % 2 = 1 THEN term ELSE Neg(term))

\* What a call of calcP on node i does when D = H * P * H^T, P as calcP has just
\* built it, is singular.
SingularStep(i) ==
  Det(orthoTransform(nodes'[i].P, nodes[i].H)) = Zero =>
    /\ failure' # "none"
    /\ cerr'.level = nodes[i].level
    /\ cerr'.H = nodes[i].H
    /\ nodes'[i].DI = nodes[i].DI
    /\ nodes'[i].G = nodes[i].G
    /\ nodes'[i].tau = nodes[i].tau
    /\ nodes'[i].psiT = nodes[i].psiT
    /\ "P" \notin cur' /\ pass' = "P"
\* C8: when D = H * P * H^T of a node is singular as calcP runs, calcP ends in a
\* failure that reports the node's level and its H, and the node's DI, G, tau
\* and psiT are those of before the call.
C8_SingularD ==
  [][ call'.op = "P" /\ ~IsGround(nodes[call'.node]) => SingularStep(call'.node) ]_vars
\* calcP has failed on a massless level-1 node with one child, in a
\* configuration where the child no longer gives it inertia about its axis; the
\* node still holds the DI = 1/D of the step before.
C8_Witness ==
  /\ failure # "none" /\ call.op = "P"
  /\ LET n == nodes[call.node]
     IN  /\ n.mass = Zero
         /\ cerr.level = 1 /\ n.level = 1
         /\ cerr.children = 1
         /\ cerr.D = << <<Zero>> >>
         /\ n.DI = << <<One>> >>
         /\ n.P # n.Mk

\* C10: for ground and one Cartesian-joint body of mass m, zero velocity and
\* zero internal force, after setPos, setVel, calcP, calcZ with spatial force F
\* and calcAccel the generalized acceleration is the linear part of F over m,
\* and getAccel reads it back; m = 1 and F = (0, -9.8, 0) give (0, -9.8, 0).
C10_CartesianAccel ==
  ( /\ N = 2 /\ nodes[2].class = "RBNodeTranslate"
    /\ "accel" \in cur
    /\ Sub3(vel, nodes[2].stateOffset) = Zero3
    /\ nodes[2].forceInternal = Zero3 ) =>
    LET F == Sub3(force[2], 3)
        m == nodes[2].mass
    IN  /\ nodes[2].ddTheta = VDivS(F, m)
        /\ call.op = "getAccel" /\ call.node = 2 =>
             Sub3(out.acc, nodes[2].stateOffset) = VDivS(F, m)
        /\ m = One /\ F = << Zero, Rat(-49, 5), Zero >> =>
             nodes[2].ddTheta = << Zero, Rat(-49, 5), Zero >>
\* The acceleration of the unit mass under gravity has been read back.
C10_Witness ==
  /\ N = 2 /\ nodes[2].class = "RBNodeTranslate"
  /\ call.op = "getAccel" /\ call.node = 2
  /\ nodes[2].mass = One
  /\ force[2] = << Zero, Zero, Zero, Zero, Rat(-49, 5), Zero >>
  /\ Sub3(vel, nodes[2].stateOffset) = Zero3
  /\ Sub3(out.acc, nodes[2].stateOffset) = << Zero, Rat(-49, 5), Zero >>

\* The free body of the spin: ground and one FreeJoint body, a step done and
\* read back, no applied and no internal force, angular velocity (0,1,0), no
\* translational velocity.
SpinRead ==
  /\ N = 2 /\ nodes[2].class = "RBNodeTranslateRotate3"
  /\ "accel" \in cur
  /\ call.op = "getAccel" /\ call.node = 2
  /\ force[2] = Zero6
  /\ nodes[2].forceInternal = Zero6
  /\ nodes[2].dTheta = IVec(<<0, 1, 0, 0, 0, 0>>)
\* The body's centre of mass is at its origin and the spin axis is a principal
\* axis of its inertia.
SpinBalanced ==
  /\ nodes[2].COM_B = Zero3
  /\ Cross(ey, MatVec(nodes[2].inertia_OB_G, ey)) = Zero3
\* C11 as stated: whatever the mass properties and in both orientation modes,
\* every entry getAccel reads back after the step is zero.
C11_Original ==
  SpinRead => SubV(out.acc, nodes[2].stateOffset, getDim(nodes[2])) =
                VecOf(getDim(nodes[2]), Zero)
\* C11: for a body with its centre of mass at its origin and spinning about a
\* principal axis, the step gives zero generalized accelerations, angular and
\* linear; getAccel reads back zeros in Euler mode, and in quaternion mode the
\* three linear entries are zero while the four quaternion entries are the
\* quaternion's second derivative 1/2 * M(dq) * omega, which for a unit q with
\* q . dq = 0 is -q/4 and not zero.
C11_FreeSpin ==
  SpinRead /\ SpinBalanced =>
    LET n == nodes[2]
        o == n.stateOffset
    IN  /\ n.ddTheta = Zero6
        /\ n.useEuler => SubV(out.acc, o, 6) = Zero6
        /\ ~n.useEuler =>
             /\ Sub3(out.acc, o + 4) = Zero3
             /\ SubV(out.acc, o, 4) =
                  VScale(Rat(1, 2), MatVec(BallM43(n.dq), ey))
             /\ Dot(n.q, n.q) = One /\ Dot(n.q, n.dq) = Zero =>
                  SubV(out.acc, o, 4) = VScale(Rat(-1, 4), n.q)
\* The step of a balanced body in quaternion mode has been read back, with the
\* quaternion's second derivative (-1/4, 0, 0, 0).
C11_Witness ==
  /\ SpinRead /\ SpinBalanced
  /\ ~nodes[2].useEuler
  /\ SubV(out.acc, nodes[2].stateOffset, 7) =
       << Rat(-1, 4), Zero, Zero, Zero, Zero, Zero, Zero >>

----------------------------------------------------------------------------
(* The LAPACK layer: LapackInterface declares one member template per       *)
(* operation and the implementation file specializes it per scalar kind.    *)
(* A FORTRAN routine is an input of the model: what it reports (its info    *)
(* code, the eigenvalues and packed eigenvectors, the optimal workspace     *)
(* size) is drawn from small sets, and a wrapper is what the caller gets    *)
(* out of it.                                                               *)

ScalarKinds == {"float", "double", "complex<float>", "complex<double>"}
RealKinds == {"float", "double"}

\* The operations declared with an int& info parameter.
InfoOperations ==
  {"gesdd", "geev", "syevx", "syev", "getrf", "gttrf", "gbtrf", "potrf", "sytrf",
   "tzrzf", "geqp3", "lascl", "ormqr", "ormrz"}
\* Every member template of the interface.
Operations ==
  InfoOperations \cup
    {"getrs", "ilaenv", "getMachinePrecision", "getMachineUnderflow", "lange",
     "trsm", "copy", "laic1"}
\* The operations whose FORTRAN routine has an info argument.
RoutineReportsInfo == InfoOperations \cup {"getrs"}

\* The body the implementation file gives an operation for a scalar kind: a
\* call of a FORTRAN routine, assert(false), or none at all (the template is
\* declared and never defined, so a program that calls it does not link).
Specialization(op, kind) ==
  CASE op \in {"potrf", "sytrf"} -> "assert"
    [] op \in {"gttrf", "gbtrf"} -> "none"
    [] op \in {"getMachinePrecision", "getMachineUnderflow"} /\ kind \notin RealKinds
         -> "none"
    [] OTHER -> "fortran"

Prefix(kind) ==
  CASE kind = "float" -> "s"
    [] kind = "double" -> "d"
    [] kind = "complex<float>" -> "c"
    [] kind = "complex<double>" -> "z"

\* The FORTRAN routine a specialization calls last.
Routine(op, kind) ==
  CASE op = "lange" -> IF kind \in RealKinds THEN "dlange" ELSE "zlange"
    [] op = "ilaenv" -> "ilaenv"
    [] op = "getMachineUnderflow" -> Prefix(kind) \o "lamch"
    [] op = "getMachinePrecision" -> Prefix(kind) \o "labad"
    [] op = "syev" /\ kind \notin RealKinds -> Prefix(kind) \o "heev"
    [] op = "syevx" /\ kind \notin RealKinds -> Prefix(kind) \o "heevx"
    [] op = "ormqr" /\ kind \notin RealKinds -> Prefix(kind) \o "unmqr"
    [] op = "ormrz" /\ kind \notin RealKinds -> Prefix(kind) \o "unmrz"
    [] OTHER -> Prefix(kind) \o op

\* What a routine reports of its info argument: <<i>>, or <<>> when it has none.
Infos == {-1, 0, 2}
Reports(op) == IF op \in RoutineReportsInfo THEN { <<i>> : i \in Infos } ELSE { <<>> }

Returned(fail, routine, info) == [fail |-> fail, routine |-> routine, info |-> info]

\* A call of a wrapper whose routine reports `reported': what reaches the
\* caller.  The routine writes its code into the wrapper's int& info parameter;
\* getrs has no such parameter and gives the routine a local int, which ends
\* with the call.
wrapper(op, kind, reported) ==
  CASE Specialization(op, kind) = "assert" -> Returned("assert", "none", <<>>)
    [] Specialization(op, kind) = "none" -> Returned("undefined", "none", <<>>)
    [] OTHER -> Returned("none", Routine(op, kind),
                         IF op \in InfoOperations THEN reported ELSE <<>>)

Min(a, b) == IF a < b THEN a ELSE b
NullChar == ""

\* The value of jobz after the wrapper's test of it: the complex
\* specializations test `jobz = 'N'', which assigns.
gesddJobz(kind, jobz) == IF kind \in RealKinds THEN jobz ELSE "N"
\* The length of the real workspace: the complex specializations take the
\* first branch when the value of the test, the character assigned, is not zero.
gesddComparingJobz(kind, jobz, mn) ==
  IF kind \in RealKinds THEN 0
  ELSE IF jobz = "N" THEN 5 * mn ELSE 5 * mn * mn + 7 * mn
gesddRwork(kind, jobz, mn) ==
  IF kind \in RealKinds THEN 0
  ELSE IF gesddJobz(kind, jobz) # NullChar THEN 5 * mn ELSE 5 * mn * mn + 7 * mn

\* gesdd: a workspace query (lwork = -1), then the call with the size the
\* query left in work[0]; both calls get the jobz the test left behind.
gesdd(kind, jobz, m, n, optimal, reported) ==
  [ fail |-> "none", routine |-> Routine("gesdd", kind), info |-> reported,
    jobz |-> gesddJobz(kind, jobz),
    rwork |-> gesddRwork(kind, jobz, Min(m, n)),
    iwork |-> 8 * Min(m, n),
    lwork |-> << -1, optimal >> ]

EPS == Rat(1, 1000000)
fabs(x) == IF x[2] < 0 THEN Neg(x) ELSE x
\* x < y for rationals.
Less(x, y) == x[2] * y[1] < y[2] * x[1]

\* Complex numbers are pairs <<re, im>>, columns are tuples of them.
RealColumn(re) == Tuple([i \in 1..Len(re) |-> << re[i], Zero >>])
Column(re, im) == Tuple([i \in 1..Len(re) |-> << re[i], im[i] >>])
ConjColumn(re, im) == Tuple([i \in 1..Len(re) |-> << re[i], Neg(im[i]) >>])

Packed(rightVectors, written) == [rightVectors |-> rightVectors, written |-> written]

RECURSIVE geevVectors(_, _, _, _, _)
\* The loop over the columns from column j on (columns count from 1 here);
\* `to' holds the caller's rightVectors and how often each column was written.
geevVectors(n, wi, vr, j, to) ==
  IF j > n THEN to
  ELSE IF Less(fabs(wi[j]), EPS)
  THEN geevVectors(n, wi, vr, j + 1,
         Packed([to.rightVectors EXCEPT ![j] = RealColumn(vr[j])],
                [to.written EXCEPT ![j] = @ + 1]))
  ELSE geevVectors(n, wi, vr, j + 2,
         Packed([to.rightVectors EXCEPT ![j] = Column(vr[j], vr[j + 1]),
                                        ![j + 1] = ConjColumn(vr[j], vr[j + 1])],
                [to.written EXCEPT ![j] = @ + 1, ![j + 1] = @ + 1]))

\* The caller's rightVectors before the call.
Unwritten(n) == Packed(Tuple([j \in 1..n |-> <<>>]), Tuple([j \in 1..n |-> 0]))

\* geev for float and double: the routine leaves the eigenvalues in wr and wi
\* and the packed eigenvectors in the columns of vr.
geev(kind, n, wr, wi, vr, reported) ==
  [ fail |-> "none", routine |-> Routine("geev", kind), info |-> reported,
    values |-> Tuple([i \in 1..n |-> << wr[i], wi[i] >>]),
    vectors |-> geevVectors(n, wi, vr, 1, Unwritten(n)) ]

----------------------------------------------------------------------------
(* Calls of the LAPACK layer, one wrapper call per step.  call holds the    *)
(* call and what the routine reported, out what the caller has afterwards.  *)

MaxOrder == 3
Orders == 1..MaxOrder
Tiny == Rat(1, 2000000)

RECURSIVE ImagParts(_)
\* The imaginary parts a real geev routine can leave for order n: zero for a
\* real eigenvalue, w > 0 followed by -w for a conjugate pair.
ImagParts(n) ==
  IF n = 0 THEN { <<>> }
  ELSE { <<Zero>> \o p : p \in ImagParts(n - 1) } \cup
       (IF n < 2 THEN {}
        ELSE { <<w, Neg(w)>> \o p : w \in {One, Tiny}, p \in ImagParts(n - 2) })

\* Packed eigenvectors: column j holds n*(j-1)+1 .. n*j.
PackedVectors(n) == Tuple([j \in 1..n |-> Tuple([i \in 1..n |-> Num(n * (j - 1) + i)])])
RealParts(n) == Tuple([j \in 1..n |-> Num(j)])

LapackCall(op, kind, args) == [op |-> op, type |-> kind, args |-> args]

InitLapack ==
  /\ nodes = <<>>
  /\ cnt = 0
  /\ call = NoCall
  /\ failure = "none"
  /\ cerr = <<>>
  /\ pos = <<>> /\ vel = <<>> /\ pos0 = <<>> /\ vel0 = <<>>
  /\ force = <<>> /\ out = <<>>
  /\ pass = "lapack" /\ cursor = 0 /\ cur = {} /\ enforced = {}

lapackRest == << nodes, cnt, cerr, pos, vel, pos0, vel0, force, pass, cursor, cur, enforced >>

\* A call of any wrapper that hands its arguments to the routine as they are.
Wrapper(op, kind, reported) ==
  /\ pass = "lapack"
  /\ failure = "none"
  /\ op # "gesdd"
  /\ op = "geev" => kind \notin RealKinds
  /\ call' = LapackCall(op, kind, [reported |-> reported])
  /\ out' = wrapper(op, kind, reported)
  /\ failure' = out'.fail
  /\ UNCHANGED lapackRest

Gesdd(kind, jobz, m, n, optimal, reported) ==
  /\ pass = "lapack"
  /\ failure = "none"
  /\ call' = LapackCall("gesdd", kind,
                        [jobz |-> jobz, m |-> m, n |-> n, reported |-> reported])
  /\ out' = gesdd(kind, jobz, m, n, optimal, reported)
  /\ failure' = "none"
  /\ UNCHANGED lapackRest

Geev(kind, n, wi, reported) ==
  /\ pass = "lapack"
  /\ failure = "none"
  /\ call' = LapackCall("geev", kind,
                        [n |-> n, wi |-> wi, vr |-> PackedVectors(n),
                         reported |-> reported])
  /\ out' = geev(kind, n, RealParts(n), wi, PackedVectors(n), reported)
  /\ failure' = "none"
  /\ UNCHANGED lapackRest

NextLapack ==
  \/ \E op \in Operations, kind \in ScalarKinds :
       \E reported \in Reports(op) : Wrapper(op, kind, reported)
  \/ \E kind \in ScalarKinds, jobz \in {"A", "S", "O", "N"}, m \in Orders,
        n \in Orders, reported \in Reports("gesdd") :
       Gesdd(kind, jobz, m, n, 8 * m * n, reported)
  \/ \E kind \in RealKinds, n \in Orders, reported \in Reports("geev") :
       \E wi \in ImagParts(n) : Geev(kind, n, wi, reported)

SpecLapack == InitLapack /\ [][NextLapack]_vars

\* C12: whenever the routine behind a wrapper reports an info code, the caller
\* has that code after the call.
C12_InfoHandedBack ==
  (/\ pass = "lapack"
   /\ call.op \in RoutineReportsInfo
   /\ out.fail = "none"
   /\ call.args.reported # <<0>>)
    => out.info = call.args.reported

\* C13: after a geev call for float or double that the routine ends with info
\* zero, every column of the result has been written once;
\* the column of an eigenvalue with imaginary part zero is the routine's
\* column with imaginary part zero, and the columns j, j+1 of a pair with any
\* non-zero imaginary part are vr[j] + i*vr[j+1] and vr[j] - i*vr[j+1].
C13_ConjugatePairs ==
  (/\ pass = "lapack"
   /\ call.op = "geev"
   /\ call.type \in RealKinds
   /\ call.args.reported = <<0>>) =>
    \A j \in 1..call.args.n :
      /\ out.vectors.written[j] = 1
      /\ call.args.wi[j] = Zero =>
           out.vectors.rightVectors[j] = RealColumn(call.args.vr[j])
      /\ Less(Zero, call.args.wi[j]) =>
           /\ out.vectors.rightVectors[j] =
                Column(call.args.vr[j], call.args.vr[j + 1])
           /\ out.vectors.rightVectors[j + 1] =
                ConjColumn(call.args.vr[j], call.args.vr[j + 1])

\* C14: the complex gesdd wrappers size the real workspace by comparing jobz
\* with 'N': 5*mn entries for 'N', 5*mn^2 + 7*mn for any other jobz.
C14_RworkByJobz ==
  (pass = "lapack" /\ call.op = "gesdd" /\ call.type \notin RealKinds) =>
    out.rwork = gesddComparingJobz(call.type, call.args.jobz,
                                   Min(call.args.m, call.args.n))

\* C15: a call of any declared operation for any of the four scalar kinds
\* reaches its FORTRAN routine and does not end in a failed assertion.
C15_EveryKindDispatches ==
  (pass = "lapack" /\ call.op \in Operations) =>
    /\ out.fail = "none"
    /\ out.routine = Routine(call.op, call.type)

----------------------------------------------------------------------------
(* addChild calls on nodes created beforehand: any node may be given as the  *)
(* parent and any as the child.                                              *)

MaxCalls == 3

LooseScript(k) ==
  Tuple([i \in 1..k |-> IF i = 1 THEN Ground
                        ELSE Body("CartesianJoint", FALSE, IdFrame, UnitMass, 0, Zero3)])

InitTree ==
  /\ LET sys == Assemble(LooseScript(MaxNodes), MaxNodes)
     IN  /\ nodes = sys.nodes
         /\ cnt = sys.cnt
  /\ call = NoCall
  /\ failure = "none"
  /\ cerr = <<>>
  /\ pos = <<>> /\ vel = <<>> /\ pos0 = <<>> /\ vel0 = <<>>
  /\ force = <<>> /\ out = <<>>
  /\ pass = "tree" /\ cursor = 0 /\ cur = {} /\ enforced = {}

\* One call parent.addChild(child, referenceFrame); cursor counts the calls.
AddChildCall(p, c, referenceFrame) ==
  /\ pass = "tree"
  /\ cursor < MaxCalls
  /\ nodes' = addChild(nodes, p, c, referenceFrame)
  /\ call' = Call("addChild", "none", FALSE, FALSE, p, c)
  /\ cursor' = cursor + 1
  /\ UNCHANGED << cnt, failure, cerr, pos, vel, pos0, vel0, force, out, pass, cur,
                  enforced >>

NextTree ==
  \E p \in 1..Len(nodes), c \in 1..Len(nodes) :
    AddChildCall(p, c, Frame(ident33, ex))

SpecTree == InitTree /\ [][NextTree]_vars

\* How often c is listed among the children of p.
Listed(ns, p, c) ==
  Cardinality({ k \in 1..Len(ns[p].children) : ns[p].children[k] = c })

RECURSIVE ReachesRoot(_, _, _)
\* Following parent links from i ends at a node without parent in at most
\* `steps' steps.
ReachesRoot(ns, i, steps) ==
  IF ns[i].parent = 0 THEN TRUE
  ELSE IF steps = 0 THEN FALSE
  ELSE ReachesRoot(ns, ns[i].parent, steps - 1)

\* C16: after any sequence of addChild calls the graph is a tree: the ground
\* has no parent, a node with a parent is listed once among that parent's
\* children and not among any other node's, a node without parent is listed
\* nowhere, and the parent links from any node end without coming back to a
\* node.
C16_AlwaysTree ==
  pass = "tree" =>
    /\ nodes[1].parent = 0
    /\ \A c \in 1..Len(nodes), p \in 1..Len(nodes) :
         Listed(nodes, p, c) = (IF nodes[c].parent = p THEN 1 ELSE 0)
    /\ \A i \in 1..Len(nodes) : ReachesRoot(nodes, i, Len(nodes))

----------------------------------------------------------------------------
(* Position passes over one ball joint in Euler mode, its three angles       *)
(* drawn from quarter turns given in degrees and, for the first angle, also  *)
(* a quarter turn given in radians.  The body is massless, which keeps the   *)
(* numbers of the rotated inertia small.                                     *)

EulerScripts ==
  { << Ground, Body("OrientationJoint", TRUE, IdFrame, NoMass, 1, Zero3) >>,
    << Ground, Body("FreeJoint", TRUE, IdFrame, NoMass, 1, Zero3) >> }
Degrees == { Num(0), Num(90), Num(180), Num(-90) }

InitEuler ==
  /\ \E script \in EulerScripts, phi \in Degrees \cup {HalfPi}, theta \in Degrees,
        psi \in Degrees :
       LET sys == Assemble(script, Len(script))
       IN  /\ nodes = sys.nodes
           /\ cnt = sys.cnt
           /\ pos = SetSub(VecOf(sys.cnt, Zero), 0, << phi, theta, psi >>)
           /\ vel = VecOf(sys.cnt, Zero)
           /\ out = [pos |-> Blank(sys.cnt), vel |-> Blank(sys.cnt),
                     acc |-> Blank(sys.cnt)]
           /\ force = << Zero6, Zero6 >>
  /\ pos0 = pos
  /\ vel0 = vel
  /\ call = NoCall
  /\ failure = "none"
  /\ cerr = <<>>
  /\ pass = "idle" /\ cursor = 0 /\ cur = {} /\ enforced = {}

NextEuler == SetPos \/ GetPos
SpecEuler == InitEuler /\ [][NextEuler]_vars

\* The ball has been through setPos with the Euler angles (phi, 0, 0).
EulerSet(phi) ==
  /\ call.op = "pos"
  /\ call.node = 2
  /\ nodes[2].useEuler
  /\ nodes[2].theta = << phi, Zero, Zero >>

\* C17: for a ball joint in Euler mode, the angles (0, 0, 0) give R_PB the
\* identity, and the angles (pi/2, 0, 0) give an R_PB that maps the unit y
\* vector to the unit x vector.
C17_EulerQuarterTurn ==
  /\ EulerSet(Zero) => nodes[2].R_PB = ident33
  /\ EulerSet(HalfPi) => MatVec(nodes[2].R_PB, ey) = ex

----------------------------------------------------------------------------
(* The two velocity maps of the ball joint: setVelFromSVel, which ends in    *)
(* setBallDerivs, and setVel, which ends in setBallVel.                      *)

setBallDerivsWithoutHalf(n, omega) ==
  IF n.useEuler THEN [fail |-> "assert", node |-> n]
  ELSE [fail |-> "none",
        node |-> [n EXCEPT !.dq = MatVec(BallM43(n.q), omega)]]
\* ContainedBallJoint::setBallDerivs: assert(!useEuler), then dq = 0.5*M*omega.
setBallDerivs(n, omega) ==
  IF n.useEuler THEN [fail |-> "assert", node |-> n]
  ELSE [fail |-> "none",
        node |-> [n EXCEPT !.dq = VScale(Rat(1, 2), MatVec(BallM43(n.q), omega))]]

\* RigidBodyNodeSpec<dof>::setVelFromSVel
setVelFromSVelSpec(ns, n, sVel) ==
  [n EXCEPT !.dTheta = MatVec(n.H, VSub(sVel, PhiTMul(n.phi, ns[n.parent].sVel)))]
BallDerivsOf(n) ==
  IF n.class = "RBNodeRotate3" THEN setBallDerivs(n, n.dTheta)
  ELSE setBallDerivs(n, Sub3(n.dTheta, 0))
setVelFromSVelCheckingFirst(ns, n, sVel) ==
  IF IsGround(n) THEN [fail |-> "none", node |-> n]
  ELSE IF n.class \in {"RBNodeRotate3", "RBNodeTranslateRotate3"}
  THEN IF n.useEuler THEN [fail |-> "assert", node |-> n]
       ELSE BallDerivsOf(setVelFromSVelSpec(ns, n, sVel))
  ELSE [fail |-> "none", node |-> setVelFromSVelSpec(ns, n, sVel)]
\* setVelFromSVel of RBGroundBody, RigidBodyNodeSpec, RBNodeRotate3 and
\* RBNodeTranslateRotate3
setVelFromSVel(ns, n, sVel) ==
  IF IsGround(n) THEN [fail |-> "none", node |-> n]
  ELSE IF n.class \in {"RBNodeRotate3", "RBNodeTranslateRotate3"}
  THEN BallDerivsOf(setVelFromSVelSpec(ns, n, sVel))
  ELSE [fail |-> "none", node |-> setVelFromSVelSpec(ns, n, sVel)]

RECURSIVE PosPass(_, _, _)
\* The nodes after setPos(posv) on the first k of them, base to tip.
PosPass(ns, posv, k) ==
  IF k = 0 THEN ns
  ELSE LET before == PosPass(ns, posv, k - 1)
       IN  [before EXCEPT ![k] = setPos(before, before[k], posv)]

BallScripts ==
  { << Ground, Body(type, e, IdFrame, UnitMass, 1, Zero3) >> :
      type \in {"OrientationJoint", "FreeJoint"}, e \in BOOLEAN }
BallQuaternions ==
  { IVec(<<1, 0, 0, 0>>), IVec(<<2, 0, 0, 0>>),
    << Rat(1, 2), Rat(1, 2), Rat(1, 2), Rat(1, 2) >>, IVec(<<0, 3, -4, 0>>) }
SpatialVelocities ==
  { Zero6, IVec(<<0, 1, 0, 0, 0, 0>>), IVec(<<1, 2, 3, 4, 5, 6>>),
    IVec(<<1, -2, 2, 0, 0, 1>>) }

InitBall ==
  /\ \E script \in BallScripts, q \in BallQuaternions :
       LET sys == Assemble(script, Len(script))
       IN  /\ pos = SetSub(VecOf(sys.cnt, Zero), 0,
                           IF sys.nodes[2].useEuler THEN Zero3 ELSE q)
           /\ nodes = PosPass(sys.nodes, pos, Len(sys.nodes))
           /\ cnt = sys.cnt
           /\ vel = Blank(sys.cnt)
           /\ out = [pos |-> Blank(sys.cnt), vel |-> Blank(sys.cnt),
                     acc |-> Blank(sys.cnt)]
           /\ force = << Zero6, Zero6 >>
  /\ pos0 = pos
  /\ vel0 = Zero6
  /\ call = NoCall
  /\ failure = "none"
  /\ cerr = <<>>
  /\ pass = "ball" /\ cursor = 0 /\ cur = {} /\ enforced = {}

\* setVelFromSVel(sVel) on the body; vel0 keeps the sVel given.
SetVelFromSVel(sVel) ==
  /\ pass = "ball"
  /\ failure = "none"
  /\ LET r == setVelFromSVel(nodes, nodes[2], sVel)
     IN  /\ nodes' = [nodes EXCEPT ![2] = r.node]
         /\ failure' = r.fail
  /\ vel0' = sVel
  /\ call' = Call("setVelFromSVel", "none", FALSE, FALSE, 2, 0)
  /\ cur' = {"derivs"}
  /\ UNCHANGED << cnt, cerr, pos, vel, pos0, force, out, pass, cursor, enforced >>

\* getVel(vel) on the body, into the caller's velocity vector.
GetVelOfBall ==
  /\ pass = "ball"
  /\ failure = "none"
  /\ cur = {"derivs"}
  /\ vel' = getVel(nodes[2], vel)
  /\ call' = Call("getVel", "none", FALSE, FALSE, 2, 0)
  /\ cur' = {"derivs", "read"}
  /\ UNCHANGED << nodes, cnt, failure, cerr, pos, pos0, vel0, force, out, pass, cursor,
                  enforced >>

\* setVel(vel) on the body, with the vector getVel filled.
SetVelOfBall ==
  /\ pass = "ball"
  /\ failure = "none"
  /\ cur = {"derivs", "read"}
  /\ nodes' = [nodes EXCEPT ![2] = setVel(nodes, nodes[2], vel)]
  /\ call' = Call("setVel", "none", FALSE, FALSE, 2, 0)
  /\ cur' = {"derivs", "read", "vel"}
  /\ UNCHANGED << cnt, failure, cerr, pos, vel, pos0, vel0, force, out, pass, cursor,
                  enforced >>

NextBall ==
  \/ \E sVel \in SpatialVelocities : SetVelFromSVel(sVel)
  \/ GetVelOfBall
  \/ SetVelOfBall
SpecBall == InitBall /\ [][NextBall]_vars

\* The angular velocity setVelFromSVel handed to setBallDerivs: the joint's
\* axes are the ground's here.
OmegaGiven == Sub3(vel0, 0)
QuaternionBall == pass = "ball" /\ ~nodes[2].useEuler

\* C18: for a ball joint in quaternion mode, setBallDerivs leaves
\* dq = M(q)^T * omega / 2, which is orthogonal to q, and setBallVel on that dq
\* gives back |q|^2 * omega: omega itself when q is a unit quaternion.
C18_VelocityMapsInverse ==
  QuaternionBall =>
    /\ call.op = "setVelFromSVel" =>
         /\ nodes[2].dq = VScale(Rat(1, 2), MatVec(Transpose(BallM34(nodes[2].q)),
                                                   OmegaGiven))
         /\ Dot(nodes[2].q, nodes[2].dq) = Zero
    /\ call.op = "setVel" =>
         /\ Sub3(nodes[2].dTheta, 0) = VScale(Dot(nodes[2].q, nodes[2].q), OmegaGiven)
         /\ Dot(nodes[2].q, nodes[2].q) = One =>
              Sub3(nodes[2].dTheta, 0) = OmegaGiven

\* The round trip has been made on a unit quaternion other than (1,0,0,0) and
\* on one of norm 5, with an angular velocity that is not zero.
C18_Witness ==
  /\ QuaternionBall
  /\ call.op = "setVel"
  /\ OmegaGiven = IVec(<<1, 2, 3>>)
  /\ \/ /\ nodes[2].q = << Rat(1, 2), Rat(1, 2), Rat(1, 2), Rat(1, 2) >>
        /\ Sub3(nodes[2].dTheta, 0) = IVec(<<1, 2, 3>>)
     \/ /\ nodes[2].q = IVec(<<0, 3, -4, 0>>)
        /\ Sub3(nodes[2].dTheta, 0) = IVec(<<25, 50, 75>>)

\* C26: setVelFromSVel on a ball or free joint in Euler mode ends in an
\* assertion failure, and the node's dTheta then already holds
\* H * (sVel - phi^T * parent sVel); in quaternion mode the call completes,
\* dTheta holds the same and dq = M(q)^T * omega / 2 is set.
C26_EulerDerivsAssert ==
  (pass = "ball" /\ call.op = "setVelFromSVel") =>
    /\ nodes[2].dTheta =
         MatVec(nodes[2].H, VSub(vel0, PhiTMul(nodes[2].phi, nodes[1].sVel)))
    /\ IF nodes[2].useEuler THEN failure = "assert"
       ELSE /\ failure = "none"
            /\ nodes[2].dq = VScale(Rat(1, 2), MatVec(BallM43(nodes[2].q),
                                                      Sub3(nodes[2].dTheta, 0)))
\* The call failed on a free joint in Euler mode and left a dTheta that is not
\* the zero the node was created with.
C26_Witness ==
  /\ pass = "ball" /\ call.op = "setVelFromSVel" /\ failure = "assert"
  /\ nodes[2].class = "RBNodeTranslateRotate3" /\ nodes[2].useEuler
  /\ nodes[2].dTheta = IVec(<<1, 2, 3, 4, 5, 6>>)

----------------------------------------------------------------------------
(* The internal-force pass: calcInternalForce on every node, tip to base.    *)

RECURSIVE InternalForceChildren(_, _, _)
\* The sum of children[i]->phi * children[i]->z over the first k children.
InternalForceChildren(ns, n, k) ==
  IF k = 0 THEN Zero6
  ELSE LET child == ns[n.children[k]]
       IN  VAdd(InternalForceChildren(ns, n, k - 1), PhiMul(child.phi, child.z))

calcInternalForceAssigning(ns, n, spatialForce) ==
  IF IsGround(n) THEN n
  ELSE LET z == VAdd(Tuple([k \in 1..6 |-> Neg(spatialForce[k])]),
                     InternalForceChildren(ns, n, Len(n.children)))
       IN  [ n EXCEPT !.z = z, !.forceInternal = MatVec(n.H, z) ]
\* calcInternalForce(spatialForce): RBGroundBody's does nothing,
\* RigidBodyNodeSpec<dof>'s sets z and adds H * z to forceInternal.
calcInternalForce(ns, n, spatialForce) ==
  IF IsGround(n) THEN n
  ELSE LET z == VAdd(Tuple([k \in 1..6 |-> Neg(spatialForce[k])]),
                     InternalForceChildren(ns, n, Len(n.children)))
       IN  [ n EXCEPT !.z = z,
                      !.forceInternal = VAdd(n.forceInternal, MatVec(n.H, z)) ]

\* One call of an internal-force pass.  A pass starts at the last node when the
\* positions are current, and is made at most twice on the same positions.
CalcInternalForce ==
  /\ failure = "none"
  /\ \/ pass = "force"
     \/ pass = "idle" /\ "pos" \in cur /\ "force2" \notin cur
  /\ LET i == IF pass = "force" THEN cursor ELSE N
     IN  /\ nodes' = [nodes EXCEPT ![i] = calcInternalForce(nodes, nodes[i], force[i])]
         /\ pass' = IF i = 1 THEN "idle" ELSE "force"
         /\ cursor' = i - 1
         /\ cur' = IF i > 1 THEN cur
                   ELSE cur \cup {IF "force" \in cur THEN "force2" ELSE "force"}
         /\ call' = Call("force", "none", FALSE, FALSE, i, 0)
  /\ UNCHANGED << cnt, failure, cerr, pos, vel, pos0, vel0, force, out, enforced >>

InitForce == InitSystem(KinScripts, Variants)
NextForce == SetPos \/ CalcInternalForce
SpecForce == InitForce /\ [][NextForce]_vars

\* z of node i as calcInternalForce leaves it, from the children's z.
InternalZ(i) ==
  VAdd(Tuple([k \in 1..6 |-> Neg(force[i][k])]),
       InternalForceChildren(nodes, nodes[i], Len(nodes[i].children)))
\* m times H * z of node i.
TimesHz(m, i) == VScale(Num(m), MatVec(nodes[i].H, nodes[i].z))

\* C20: a node's internal force is zero after its setPos; after setPos and one
\* internal-force pass, tip to base, every node holds z = -spatialForce + the sum
\* over its children of phi_child * z_child and forceInternal = H * z; after a
\* second pass with the same forces and no setPos in between it holds twice H * z.
C20_InternalForceAccumulates ==
  /\ (call.op = "pos" /\ ~IsGround(nodes[call.node])) =>
        nodes[call.node].forceInternal = VecOf(nodes[call.node].dof, Zero)
  /\ (pass = "idle" /\ "force" \in cur) =>
        \A i \in 1..N :
          ~IsGround(nodes[i]) =>
            /\ nodes[i].z = InternalZ(i)
            /\ nodes[i].forceInternal =
                 TimesHz(IF "force2" \in cur THEN 2 ELSE 1, i)
\* Two passes are done on the same positions and a node with a child whose z
\* has a moment about the node's origin holds twice H * z, which is not zero.
C20_Witness ==
  /\ pass = "idle" /\ "force2" \in cur
  /\ \E i \in 1..N :
       /\ ~IsGround(nodes[i])
       /\ nodes[i].children # <<>>
       /\ nodes[i].z # Tuple([k \in 1..6 |-> Neg(force[i][k])])
       /\ nodes[i].forceInternal = TimesHz(2, i)
       /\ nodes[i].forceInternal # TimesHz(1, i)

----------------------------------------------------------------------------
(* All the passes of a step on one tree, in index order.                     *)

\* calcY(): RBGroundBody's does nothing.
calcY(ns, n) ==
  IF IsGround(n) THEN n
  ELSE [ n EXCEPT !.Y = MatAdd(orthoTransform(n.DI, Transpose(n.H)),
                               orthoTransform(ns[n.parent].Y, n.psiT)) ]

CalcY ==
  /\ MayVisit("Y")
  /\ LET i == Visited("Y")
     IN  /\ nodes' = [nodes EXCEPT ![i] = calcY(nodes, nodes[i])]
         /\ MoveOn("Y", i)
  /\ out' = BlankOut
  /\ UNCHANGED << cnt, failure, cerr, pos, vel, pos0, vel0, force, enforced >>

\* A chain and a tree whose ground has two children.
PassScripts ==
  { << Ground,
       Body("OrientationJoint", FALSE, IdFrame, OffMass, 1, Zero3),
       Body("TorsionJoint", TRUE, TurnedFrame, UnitMass, 2, ex) >>,
    << Ground,
       Body("CartesianJoint", TRUE, IdFrame, UnitMass, 1, Zero3),
       Body("TorsionJoint", TRUE, TurnedFrame, OffMass, 1, ey) >> }
InitPasses == InitSystem(PassScripts, {2}) /\ UnitQuaternions(nodes, pos)
NextPasses ==
  \/ SetPos \/ SetVel \/ CalcP \/ CalcZ \/ CalcAccel \/ CalcY \/ CalcInternalForce
SpecPasses == InitPasses /\ [][NextPasses]_vars

\* The passes in which a node reads its parent, and those in which it reads its
\* children.
ReadsParent == {"pos", "vel", "accel", "Y"}
ReadsChildren == {"P", "Z", "force"}
\* The nodes the pass under way has called so far.
CalledInPass ==
  IF pass \notin ReadsParent \cup ReadsChildren THEN {}
  ELSE IF pass = "force" \/ TipToBase(pass) THEN (cursor + 1)..N
  ELSE 1..(cursor - 1)
ReadByNothing(p, i) == {}
\* The nodes whose state the handler of pass p reads when called on node i.
ReadBy(p, i) ==
  IF IsGround(nodes[i]) THEN {}
  ELSE IF p \in ReadsParent THEN {nodes[i].parent}
  ELSE {nodes[i].children[k] : k \in 1..Len(nodes[i].children)}
\* This step is a call of pass p's handler on node i.
CallOf(p, i) == /\ call'.op = p /\ call'.node = i
                /\ << nodes, pass, cursor, cur, call >>' # << nodes, pass, cursor, cur, call >>

\* C21: in every pass, base to tip or tip to base, each node whose state a call
\* reads (the parent in setPos, setVel, calcAccel and calcY; the children in
\* calcP, calcZ and calcInternalForce) has been called earlier in the same pass,
\* so nothing read is left over from an earlier pass.
C21_ReadsAreFresh ==
  [][ \A p \in ReadsParent \cup ReadsChildren : \A i \in 1..N :
        (CallOf(p, i) /\ ReadBy(p, i) # {}) =>
          /\ pass = p
          /\ ReadBy(p, i) \subseteq CalledInPass ]_vars
\* A tip-to-base pass has just called a node that has a child, after a
\* base-to-tip pass went through a node whose parent is not the ground.
C21_Witness ==
  /\ call.op \in ReadsChildren
  /\ nodes[call.node].children # <<>>
  /\ ~IsGround(nodes[call.node])
  /\ {"pos", "vel"} \subseteq cur

----------------------------------------------------------------------------
(* Passes that call the nodes in any order in which a node comes after the   *)
(* nodes it reads.                                                           *)

PassOrder == << "pos", "vel", "P", "Z", "accel", "force" >>
\* Node i after the call that pass p makes on it, the nodes being ns.
Handled(p, ns, i) ==
  CASE p = "pos" -> setPos(ns, ns[i], pos)
    [] p = "vel" -> setVel(ns, ns[i], vel)
    [] p = "P" -> calcP(ns, ns[i]).node
    [] p = "Z" -> calcZ(ns, ns[i], force[i])
    [] p = "accel" -> calcAccel(ns, ns[i])
    [] p = "force" -> calcInternalForce(ns, ns[i], force[i])

RECURSIVE IndexPass(_, _, _)
\* The nodes after the first k calls of pass p made in index order on ns.
IndexPass(p, ns, k) ==
  IF k = 0 THEN ns
  ELSE LET before == IndexPass(p, ns, k - 1)
           i == IF p \in ReadsChildren THEN Len(ns) - k + 1 ELSE k
       IN  [before EXCEPT ![i] = Handled(p, before, i)]

\* A node with two children that it carries around, and a ground with two.
SiblingScripts ==
  { << Ground,
       Body("OrientationJoint", FALSE, IdFrame, OffMass, 1, Zero3),
       Body("TorsionJoint", TRUE, TurnedFrame, UnitMass, 2, ex),
       Body("CartesianJoint", TRUE, IdFrame, UnitMass, 2, ey) >>,
    << Ground,
       Body("CartesianJoint", TRUE, IdFrame, UnitMass, 1, Zero3),
       Body("TorsionJoint", TRUE, TurnedFrame, OffMass, 1, ey) >> }

\* cursor counts the passes done, enforced holds the nodes the pass under way
\* has called, call.ret is 1 once that pass has left the index order.
InitSiblings ==
  /\ \E script \in SiblingScripts, pv \in Variants, vv \in Variants :
       LET sys == Assemble(script, Len(script))
       IN  /\ nodes = sys.nodes
           /\ cnt = sys.cnt
           /\ pos = FillCoords(sys.nodes, Len(sys.nodes), pv)
           /\ vel = FillRates(sys.nodes, Len(sys.nodes), vv)
           /\ out = [pos |-> Blank(sys.cnt), vel |-> Blank(sys.cnt),
                     acc |-> Blank(sys.cnt)]
           /\ force = Tuple([i \in 1..Len(sys.nodes) |-> SpatialForce(2)])
  /\ UnitQuaternions(nodes, pos)
  /\ pos0 = pos
  /\ vel0 = vel
  /\ call = NoCall
  /\ failure = "none"
  /\ cerr = <<>>
  /\ pass = "any" /\ cursor = 0 /\ cur = {} /\ enforced = {}

IndexNext(p) ==
  IF p \in ReadsChildren THEN N - Cardinality(enforced) ELSE Cardinality(enforced) + 1

\* The pass under way calls node i, which it has not called yet and whose
\* reads are of nodes it has called.
CallAny(i) ==
  /\ pass = "any"
  /\ failure = "none"
  /\ cursor < Len(PassOrder)
  /\ i \notin enforced
  /\ ReadBy(PassOrder[cursor + 1], i) \subseteq enforced
  /\ nodes' = [nodes EXCEPT ![i] = Handled(PassOrder[cursor + 1], nodes, i)]
  /\ failure' = IF PassOrder[cursor + 1] = "P" THEN calcP(nodes, nodes[i]).fail
                ELSE failure
  /\ enforced' = IF enforced \cup {i} = 1..N THEN {} ELSE enforced \cup {i}
  /\ cursor' = IF enforced \cup {i} = 1..N THEN cursor + 1 ELSE cursor
  /\ call' = Call(PassOrder[cursor + 1], "none", FALSE, FALSE, i,
                  IF i # IndexNext(PassOrder[cursor + 1]) \/ (enforced # {} /\ call.ret = 1)
                  THEN 1 ELSE 0)
  /\ UNCHANGED << cnt, cerr, pos, vel, pos0, vel0, force, out, pass, cur >>

NextSiblings == \E i \in 1..N : CallAny(i)
SpecSiblings == InitSiblings /\ [][NextSiblings]_vars

\* The nodes as the last pass found them, as far as it reads them: setPos has
\* cleared the internal forces that calcInternalForce adds to.
BeforePass(p) ==
  IF p # "force" THEN nodes
  ELSE Tuple([i \in 1..N |->
         [nodes[i] EXCEPT !.forceInternal = VecOf(Len(nodes[i].forceInternal), Zero)]])

\* C22: on a tree in which a node has two or more children, a pass that calls
\* every node after the nodes it reads (after its children, tip to base: calcP,
\* calcZ, calcInternalForce; after its parent, base to tip: setPos, setVel,
\* calcAccel) leaves every node as the pass in index order does.  A pass
\* overwrites all it reads of other nodes' results before reading it, so what
\* the index-order pass makes of the nodes as they are now is what it would have
\* made of them as they were before the pass.
C22_SiblingsCommute ==
  (pass = "any" /\ enforced = {} /\ cursor > 0 /\ failure = "none") =>
    nodes = IndexPass(PassOrder[cursor], BeforePass(PassOrder[cursor]), N)
\* A tip-to-base pass that called the second child of a node before the first
\* is over, and so are the passes before it.
C22_Witness ==
  /\ pass = "any" /\ enforced = {} /\ failure = "none"
  /\ cursor = Len(PassOrder)
  /\ call.ret = 1
  /\ \E i \in 2..N : Len(nodes[i].children) = 2 /\ nodes[i].forceInternal # Zero3

RECURSIVE ShiftedChildren(_, _)
\* The sum over the first k children of node i of
\* phi_child * (tau_child * P_child) * phi_child^T, phi_child being the shift
\* operator of the offset the child stored in its position pass.
ShiftedChildren(i, k) ==
  IF k = 0 THEN MatOf(6, 6, Zero)
  ELSE LET child == nodes[nodes[i].children[k]]
       IN  MatAdd(ShiftedChildren(i, k - 1),
                  orthoTransform(MatMul(child.tau, child.P), PhiMat(child.phi)))

\* C23: once the positions are current, the P that calcP accumulates block by
\* block on a node, with crossMat of the child's origin less the node's, is
\* Mk + the sum over its children of phi_child * (tau_child * P_child) *
\* phi_child^T; on a node without children it is Mk.
C23_BlockwiseIsConjugation ==
  (call.op = "P" /\ ~IsGround(nodes[call.node])) =>
    /\ nodes[call.node].P =
         MatAdd(nodes[call.node].Mk,
                ShiftedChildren(call.node, Len(nodes[call.node].children)))
    /\ nodes[call.node].children = <<>> => nodes[call.node].P = nodes[call.node].Mk
\* calcP has been called on a node with two children, each away from the
\* node's origin, and on a node without children before.
C23_Witness ==
  /\ call.op = "P"
  /\ Len(nodes[call.node].children) = 2
  /\ \A k \in 1..2 :
       LET child == nodes[nodes[call.node].children[k]]
       IN  /\ child.phi # Zero3
           /\ child.children = <<>>
           /\ child.P = child.Mk
           /\ MatMul(child.tau, child.P) # MatOf(6, 6, Zero)
  /\ nodes[call.node].P # nodes[call.node].Mk

----------------------------------------------------------------------------
(* The wrappers that allocate their own workspace: syevx, syev and gesdd.    *)
(* A wrapper's calls of its routine are listed in order, each with the jobz  *)
(* it was given, the length of the work array and lwork; info is the         *)
(* caller's int&, which every call writes.                                   *)

RoutineCall(routine, jobz, work, lwork) ==
  [routine |-> routine, jobz |-> jobz, work |-> work, lwork |-> lwork]

queryOnly(routine, jobz, read, infos) ==
  [ fail |-> "none",
    calls |-> << RoutineCall(routine, jobz, 1, -1) >>,
    info |-> infos[1] ]
\* The size query with a work array of one element and lwork = -1, then the
\* call with `read', the integer found in the first work element, as the length
\* of the workspace and as lwork.  infos are the codes the two calls report.
queryThenCall(routine, jobz, read, infos) ==
  [ fail |-> "none",
    calls |-> << RoutineCall(routine, jobz, 1, -1),
                 RoutineCall(routine, jobz, read, read) >>,
    info |-> infos[Len(infos)] ]

\* syevx<float>, <double>, <complex<double>>, <complex<float>>
syevx(kind, jobz, read, infos) == queryThenCall(Routine("syevx", kind), jobz, read, infos)
\* syev<float>, <double>, <complex<float>>, <complex<double>>
syev(kind, jobz, read, infos) == queryThenCall(Routine("syev", kind), jobz, read, infos)
\* The two calls of gesdd, with the jobz the test has left.
gesddCalls(kind, jobz, read, infos) ==
  queryThenCall(Routine("gesdd", kind), gesddJobz(kind, jobz), read, infos)

WorkspaceOperations == {"syevx", "syev", "gesdd"}
allocating(op, kind, jobz, read, infos) ==
  CASE op = "syevx" -> syevx(kind, jobz, read, infos)
    [] op = "syev" -> syev(kind, jobz, read, infos)
    [] op = "gesdd" -> gesddCalls(kind, jobz, read, infos)

\* What the query can leave in the first work element: a size, or whatever was
\* there when the query failed.
Sizes == {0, 1, 34, 8 * MaxOrder * MaxOrder}
JobzOf(op) == IF op = "gesdd" THEN {"A", "S", "O", "N"} ELSE {"N", "V"}

InitWorkspace ==
  /\ nodes = <<>>
  /\ cnt = 0
  /\ call = NoCall
  /\ failure = "none"
  /\ cerr = <<>>
  /\ pos = <<>> /\ vel = <<>> /\ pos0 = <<>> /\ vel0 = <<>>
  /\ force = <<>> /\ out = <<>>
  /\ pass = "workspace" /\ cursor = 0 /\ cur = {} /\ enforced = {}

Allocating(op, kind, jobz, read, infos) ==
  /\ pass = "workspace"
  /\ call' = LapackCall(op, kind, [jobz |-> jobz, read |-> read, infos |-> infos])
  /\ out' = allocating(op, kind, jobz, read, infos)
  /\ UNCHANGED << failure, lapackRest >>

NextWorkspace ==
  \E op \in WorkspaceOperations, kind \in ScalarKinds, read \in Sizes,
     infos \in Infos \X Infos :
    \E jobz \in JobzOf(op) : Allocating(op, kind, jobz, read, infos)
SpecWorkspace == InitWorkspace /\ [][NextWorkspace]_vars

\* C24: syev, syevx and gesdd, for each of the four scalar kinds, call their
\* routine exactly twice: first with lwork = -1, then with a workspace of the
\* length read from the first work element of the query and lwork equal to that
\* length; the caller's info is what the second call reported.
C24_QueryThenCall ==
  (pass = "workspace" /\ call.op \in WorkspaceOperations) =>
    /\ Len(out.calls) = 2
    /\ \A k \in 1..2 : out.calls[k].routine = Routine(call.op, call.type)
    /\ out.calls[1].lwork = -1
    /\ out.calls[2].work = call.args.read
    /\ out.calls[2].lwork = call.args.read
    /\ out.info = call.args.infos[2]
\* A complex syevx call whose query reported success and whose second call
\* reported a failure to converge.
C24_Witness ==
  /\ pass = "workspace" /\ call.op = "syevx" /\ call.type = "complex<double>"
  /\ out.calls[1].routine = "zheevx"
  /\ call.args.infos = << 0, 2 >>
  /\ call.args.read = 34
  /\ out.info = 2

\* C27: every gesdd specialization hands the caller's jobz to its routine as it
\* is, in the size query and in the call that follows, so that a request for
\* singular vectors reaches the routine for each of the four scalar kinds.
C27_JobzReachesRoutine ==
  (pass = "workspace" /\ call.op = "gesdd") =>
    \A k \in 1..Len(out.calls) : out.calls[k].jobz = call.args.jobz

----------------------------------------------------------------------------
(* Reading the internal forces back: getInternalForce.                       *)

\* ContainedBallJoint::getBallInternalForce: the caller's vector v after the
\* call, and the failure that ended it, if any.
getBallInternalForce(n, forceInternal, offset, v) ==
  IF ~n.useEuler THEN [fail |-> "assert", v |-> v]
  ELSE LET cPhi == n.trig[1]
           sPhi == n.trig[2]
           cTheta == n.trig[5]
           sTheta == n.trig[6]
           M == << << Zero, Zero, One >>,
                   << Neg(sPhi), cPhi, Zero >>,
                   << Mul(cPhi, cTheta), Mul(sPhi, cTheta), Neg(sTheta) >> >>
       IN  [fail |-> "none",
            v |-> SetSub(v, offset, VScale(DEG2RAD, MatVec(M, forceInternal)))]

\* RBNodeTranslateRotate3::getInternalForce, after its ball's part
getTranslationForce(n, r) ==
  IF r.fail # "none" THEN r
  ELSE [fail |-> "none",
        v |-> SetSub(r.v, n.stateOffset + getBallDim(n), Sub3(n.forceInternal, 3))]

getInternalForceNotOverridden(n, v) ==
  IF IsGround(n) THEN [fail |-> "none", v |-> v]
  ELSE [fail |-> "none", v |-> SetSub(v, n.stateOffset, n.forceInternal)]
\* getInternalForce of RBGroundBody, RigidBodyNodeSpec, RBNodeRotate3 and
\* RBNodeTranslateRotate3
getInternalForce(n, v) ==
  CASE IsGround(n) -> [fail |-> "none", v |-> v]
    [] n.class = "RBNodeRotate3" ->
         getBallInternalForce(n, n.forceInternal, n.stateOffset, v)
    [] n.class = "RBNodeTranslateRotate3" ->
         getTranslationForce(n, getBallInternalForce(n, Sub3(n.forceInternal, 0),
                                                     n.stateOffset, v))
    [] OTHER -> [fail |-> "none", v |-> SetSub(v, n.stateOffset, n.forceInternal)]

IsEulerBall(n) == n.class \in {"RBNodeRotate3", "RBNodeTranslateRotate3"} /\ n.useEuler
\* The vector the caller hands to the pass under way: a fresh one when the pass
\* starts.
ForceOut == IF pass = "getForce" THEN out.t ELSE Blank(cnt)

\* One call of a pass that reads the internal forces, base to tip.  An Euler
\* ball is read after calcR_PB has run on it.
GetInternalForce ==
  /\ failure = "none"
  /\ \/ pass = "getForce"
     \/ /\ pass = "idle"
        /\ "pos" \in cur \/ \A k \in 1..N : ~IsEulerBall(nodes[k])
  /\ LET i == IF pass = "getForce" THEN cursor ELSE 1
         r == getInternalForce(nodes[i], ForceOut)
     IN  /\ out' = [pos |-> Blank(cnt), vel |-> Blank(cnt), acc |-> Blank(cnt),
                    t |-> r.v]
         /\ failure' = r.fail
         /\ pass' = IF i = N /\ r.fail = "none" THEN "idle" ELSE "getForce"
         /\ cursor' = IF i = N /\ r.fail = "none" THEN 0 ELSE i + 1
         /\ call' = Call("getForce", "none", FALSE, FALSE, i, 0)
  /\ UNCHANGED << nodes, cnt, cerr, pos, vel, pos0, vel0, force, cur, enforced >>

NextGetForce == SetPos \/ CalcInternalForce \/ GetInternalForce
SpecGetForce == InitForce /\ [][NextGetForce]_vars

\* C25: getInternalForce on a ball or free joint goes through only in Euler
\* mode; on a node in quaternion mode it ends in an assertion failure, whatever
\* was called before, and the caller's vector holds what it held before the
\* call in the node's slots and in all slots after them.
C25_QuaternionForceAsserts ==
  (call.op = "getForce" /\ nodes[call.node].class \in {"RBNodeRotate3", "RBNodeTranslateRotate3"}) =>
    IF nodes[call.node].useEuler THEN failure = "none"
    ELSE /\ failure = "assert"
         /\ \A k \in (nodes[call.node].stateOffset + 1)..cnt : out.t[k] = Blank(cnt)[k]
\* The call failed on a free joint in quaternion mode that holds an internal
\* force, translational part included, after two internal-force passes.
C25_Witness ==
  /\ call.op = "getForce" /\ failure = "assert"
  /\ nodes[call.node].class = "RBNodeTranslateRotate3" /\ ~nodes[call.node].useEuler
  /\ "force2" \in cur
  /\ Sub3(nodes[call.node].forceInternal, 0) # Zero3
  /\ Sub3(nodes[call.node].forceInternal, 3) # Zero3

----------------------------------------------------------------------------
(* lange and ilaenv: what the routine is handed.                             *)

\* The array the routine gets: the caller's a (element k is named by its index
\* k, from 0), or for float and complex<float> a converted copy of its first
\* m*n elements.  Beyond is what lies past the end of the copy.
Beyond == -1
Converted(kind) == kind \in {"float", "complex<float>"}
Handed(kind, m, n, k) == IF Converted(kind) /\ k >= m * n THEN Beyond ELSE k
\* lange<float>, <double>, <complex<float>>, <complex<double>>: the routine
\* takes entry (i, j) of an m-by-n matrix with leading dimension lda from
\* position j*lda + i of the array it is handed.
lange(kind, norm, m, n, lda) ==
  [ fail |-> "none", routine |-> Routine("lange", kind), norm |-> norm,
    work |-> m, copied |-> IF Converted(kind) THEN m * n ELSE 0,
    entries |-> [ij \in (0..(m - 1)) \X (0..(n - 1)) |->
                   Handed(kind, m, n, ij[2] * lda + ij[1])] ]

NameLength == 6
BufferLength == 10
\* ilaenv<double>, <float>, <complex<double>>, <complex<float>>: the routine's
\* name argument is strcat(buffer, name) in a local buffer of ten characters
\* that holds the kind's letter, and its last four arguments are n1, n2, n3, n3.
ilaenv(kind, ispec, name, opts, n1, n2, n3, n4) ==
  [ fail |-> IF 1 + Len(name) + 1 > BufferLength THEN "overflow" ELSE "none",
    routine |-> Routine("ilaenv", kind), ispec |-> ispec,
    name |-> Prefix(kind) \o name, opts |-> opts,
    n |-> << n1, n2, n3, n3 >>, nameLength |-> NameLength ]

InitArgs ==
  /\ nodes = <<>>
  /\ cnt = 0
  /\ call = NoCall
  /\ failure = "none"
  /\ cerr = <<>>
  /\ pos = <<>> /\ vel = <<>> /\ pos0 = <<>> /\ vel0 = <<>>
  /\ force = <<>> /\ out = <<>>
  /\ pass = "args" /\ cursor = 0 /\ cur = {} /\ enforced = {}

Lange(kind, norm, m, n, lda) ==
  /\ pass = "args"
  /\ lda >= m
  /\ call' = LapackCall("lange", kind, [norm |-> norm, m |-> m, n |-> n, lda |-> lda])
  /\ out' = lange(kind, norm, m, n, lda)
  /\ UNCHANGED << failure, lapackRest >>

Ilaenv(kind, name, n) ==
  /\ pass = "args"
  /\ call' = LapackCall("ilaenv", kind, [name |-> name, n |-> n])
  /\ out' = ilaenv(kind, 1, name, " ", n[1], n[2], n[3], n[4])
  /\ UNCHANGED << failure, lapackRest >>

RoutineNames == {"geqrf", "gebrd", "ormqr", "hseqr"}
Dimensions == { << 3, 3, 3, 3 >>, << 4, 3, -1, -1 >>, << 4, 3, 2, 1 >>, << 1, 2, 3, 4 >> }
NextArgs ==
  \/ \E kind \in ScalarKinds, norm \in {"M", "1", "I", "F"}, m \in Orders, n \in Orders,
        lda \in 1..(MaxOrder + 1) : Lange(kind, norm, m, n, lda)
  \/ \E kind \in ScalarKinds, name \in RoutineNames, n \in Dimensions :
       Ilaenv(kind, name, n)
SpecArgs == InitArgs /\ [][NextArgs]_vars

\* C28: lange<float> and lange<complex<float>> have the routine read the same
\* entries as lange<double> for the same norm, m, n and lda: for every
\* lda >= m entry (i, j) is the caller's a[j*lda + i], and nothing at or past
\* the end of the converted copy of m*n elements is read.
C28_LangeReadsTheMatrix ==
  (pass = "args" /\ call.op = "lange" /\ Converted(call.type)) =>
    \A i \in 0..(call.args.m - 1) : \A j \in 0..(call.args.n - 1) :
      /\ out.entries[<<i, j>>] =
           lange("double", call.args.norm, call.args.m, call.args.n,
                 call.args.lda).entries[<<i, j>>]
      /\ out.entries[<<i, j>>] = j * call.args.lda + i
      /\ j * call.args.lda + i < out.copied

\* C30: ilaenv hands n1, n2, n3 and n4 to the routine each in its own place and
\* as given, the name with the letter of the scalar kind put before it, and the
\* name so made fits the local buffer of ten characters with its terminator.
C30_IlaenvArguments ==
  (pass = "args" /\ call.op = "ilaenv") =>
    /\ out.n = call.args.n
    /\ out.name = Prefix(call.type) \o call.args.name
    /\ Len(out.name) + 1 <= BufferLength
    /\ out.fail = "none"

----------------------------------------------------------------------------
(* VTKReporter: handles, their representations and the VTK objects these     *)
(* point to.  nodes holds the representations made so far (a pointer to one  *)
(* is its index, 0 the null pointer), out the handles, cnt the number of VTK *)
(* objects made by New (a pointer to one is its number) and force, for each  *)
(* object, how often Delete was called on it.                                *)

MaxHandles == 3
MaxOps == 5

\* VTKReporterRep(m, generateDefaultGeometry), made when made objects exist: a
\* render window, a renderer and, with default geometry, an actor for the
\* ground's frame.
VTKReporterRep(made, generateDefaultGeometry) ==
  [ myHandle |-> 0, renWin |-> made + 1, renderer |-> made + 2,
    actors |-> IF generateDefaultGeometry THEN << made + 3 >> ELSE <<>>,
    deleted |-> FALSE ]
\* VTKReporterRep::clone: the member-wise copy, with no handle.
clone(rep) == [rep EXCEPT !.myHandle = 0]
\* VTKReporterRep::setMyHandle
setMyHandle(rep, h) == [rep EXCEPT !.myHandle = h]

\* vtkObject::Delete on object o.
Delete(counts, o) == [counts EXCEPT ![o] = @ + 1]
RECURSIVE DeleteActors(_, _, _)
\* The loop of deletePointers over the first k actors.
DeleteActors(counts, actors, k) ==
  IF k = 0 THEN counts
  ELSE Delete(DeleteActors(counts, actors, k - 1), actors[k])
\* VTKReporterRep::deletePointers: the Delete counts after it.
deletePointers(rep, counts) ==
  LET c1 == DeleteActors(counts, rep.actors, Len(rep.actors))
      c2 == IF rep.renderer # 0 THEN Delete(c1, rep.renderer) ELSE c1
  IN  IF rep.renWin # 0 THEN Delete(c2, rep.renWin) ELSE c2
\* ~VTKReporterRep, by `delete rep': the representation after it.
Destroyed(rep) ==
  [rep EXCEPT !.renWin = 0, !.renderer = 0,
              !.actors = Tuple([k \in 1..Len(rep.actors) |-> 0]), !.deleted = TRUE]

Unborn == [state |-> "unborn", rep |-> 0]
Live(r) == [state |-> "live", rep |-> r]
Gone == [state |-> "gone", rep |-> 0]
IsLive(h) == out[h].state = "live"

\* VTKReporter::isOwnerHandle
isOwnerHandle(h) == out[h].rep = 0 \/ nodes[out[h].rep].myHandle = h

InitReporter ==
  /\ nodes = <<>>
  /\ out = Tuple([h \in 1..MaxHandles |-> Unborn])
  /\ cnt = 0
  /\ force = <<>>
  /\ call = NoCall
  /\ failure = "none"
  /\ cerr = <<>>
  /\ pos = <<>> /\ vel = <<>> /\ pos0 = <<>> /\ vel0 = <<>>
  /\ pass = "reporter" /\ cursor = 0 /\ cur = {} /\ enforced = {}

reporterRest == << failure, cerr, pos, vel, pos0, vel0, pass, cur, enforced >>
MayCall == pass = "reporter" /\ failure = "none" /\ cursor < MaxOps

\* VTKReporter(m, generateDefaultGeometry) makes handle h.
Construct(h, generateDefaultGeometry) ==
  /\ MayCall
  /\ out[h].state = "unborn"
  /\ LET rep == VTKReporterRep(cnt, generateDefaultGeometry)
     IN  /\ nodes' = Append(nodes, setMyHandle(rep, h))
         /\ cnt' = cnt + 2 + Len(rep.actors)
         /\ force' = force \o Tuple([k \in 1..(2 + Len(rep.actors)) |-> 0])
  /\ out' = [out EXCEPT ![h] = Live(Len(nodes) + 1)]
  /\ call' = Call("VTKReporter", "none", FALSE, FALSE, h, 0)
  /\ cursor' = cursor + 1
  /\ UNCHANGED reporterRest

\* VTKReporter(src) makes handle h.
CopyConstruct(h, src) ==
  /\ MayCall
  /\ out[h].state = "unborn"
  /\ IsLive(src)
  /\ IF out[src].rep # 0
     THEN /\ nodes' = Append(nodes, setMyHandle(clone(nodes[out[src].rep]), h))
          /\ out' = [out EXCEPT ![h] = Live(Len(nodes) + 1)]
     ELSE /\ nodes' = nodes
          /\ out' = [out EXCEPT ![h] = Live(0)]
  /\ call' = Call("VTKReporter(src)", "none", FALSE, FALSE, h, src)
  /\ cursor' = cursor + 1
  /\ UNCHANGED << cnt, force, reporterRest >>

\* h = src
Assign(h, src) ==
  /\ MayCall
  /\ IsLive(h) /\ IsLive(src)
  /\ IF src = h
     THEN UNCHANGED << nodes, out, force >>
     ELSE LET old == out[h].rep
              counts == IF old # 0 THEN deletePointers(nodes[old], force) ELSE force
              ns == IF old # 0 THEN [nodes EXCEPT ![old] = Destroyed(nodes[old])]
                    ELSE nodes
          IN  /\ force' = counts
              /\ IF out[src].rep # 0
                 THEN /\ nodes' = Append(ns, setMyHandle(clone(ns[out[src].rep]), h))
                      /\ out' = [out EXCEPT ![h] = Live(Len(nodes) + 1)]
                 ELSE /\ nodes' = ns
                      /\ out' = [out EXCEPT ![h] = Live(0)]
  /\ call' = Call("operator=", "none", FALSE, FALSE, h, src)
  /\ cursor' = cursor + 1
  /\ UNCHANGED << cnt, reporterRest >>

\* ~VTKReporter on handle h.
Destroy(h) ==
  /\ MayCall
  /\ IsLive(h)
  /\ IF out[h].rep # 0
     THEN /\ force' = deletePointers(nodes[out[h].rep], force)
          /\ nodes' = [nodes EXCEPT ![out[h].rep] = Destroyed(@)]
     ELSE UNCHANGED << nodes, force >>
  /\ out' = [out EXCEPT ![h] = Gone]
  /\ call' = Call("~VTKReporter", "none", FALSE, FALSE, h, 0)
  /\ cursor' = cursor + 1
  /\ UNCHANGED << cnt, reporterRest >>

\* report(s) on handle h; quit says whether a WM_QUIT message is waiting.
Report(h, quit) ==
  /\ MayCall
  /\ IsLive(h)
  /\ IF out[h].rep = 0
     THEN /\ failure' = "assert"
          /\ UNCHANGED << nodes, force >>
     ELSE /\ failure' = failure
          /\ IF nodes[out[h].rep].renWin # 0 /\ quit
             THEN /\ force' = Delete(force, nodes[out[h].rep].renWin)
                  /\ nodes' = [nodes EXCEPT ![out[h].rep].renWin = 0]
             ELSE UNCHANGED << nodes, force >>
  /\ call' = Call("report", "none", FALSE, FALSE, h, IF quit THEN 1 ELSE 0)
  /\ cursor' = cursor + 1
  /\ UNCHANGED << out, cnt, cerr, pos, vel, pos0, vel0, pass, cur, enforced >>

NextReporter ==
  \E h \in 1..MaxHandles :
    \/ \E g \in BOOLEAN : Construct(h, g)
    \/ \E src \in 1..MaxHandles : CopyConstruct(h, src)
    \/ \E src \in 1..MaxHandles : Assign(h, src)
    \/ Destroy(h)
    \/ \E quit \in BOOLEAN : Report(h, quit)
SpecReporter == InitReporter /\ [][NextReporter]_vars

\* C29: after any sequence of constructions, copies, assignments, reports and
\* destructions, every handle is the owner of its representation, no two
\* handles hold the same representation, and Delete has been called at most
\* once on each render window, renderer and actor.
C29_OwnedAndReleasedOnce ==
  pass = "reporter" =>
    /\ \A h \in 1..MaxHandles : IsLive(h) => isOwnerHandle(h)
    /\ \A h1 \in 1..MaxHandles : \A h2 \in 1..MaxHandles :
         (IsLive(h1) /\ IsLive(h2) /\ h1 # h2 /\ out[h1].rep # 0) =>
           out[h1].rep # out[h2].rep
    /\ \A o \in 1..cnt : force[o] <= 1

====
